---------------------------- MODULE Spec2Model ----------------------------
(***************************************************************************)
(* Model of grm (git-release-manager): the changelog engine of             *)
(* grm/changelog.py (ChangelogManager), the version catalog of             *)
(* grm/version_manager.py (VersionManager) and the two commands of         *)
(* grm/cli.py (release and finish) over a git repository.                  *)
(*                                                                         *)
(* A text is a sequence of one-character strings, a line is a text without *)
(* "\n", and the changelog file holds one text.  Indices into line lists   *)
(* are 0-based and ranges are half-open, as in the Python source.          *)
(***************************************************************************)
EXTENDS Integers, Sequences, FiniteSets, TLC

VARIABLES changelog, last, manager, answer, git, run

vars == <<changelog, last, manager, answer, git, run>>

(***************************************************************************)
(* Bounds of the model.                                                    *)
(***************************************************************************)
\* Largest number of lines of a changelog the model starts from.
MaxLines == 4
\* Largest number of tags a version catalog is built from.
MaxTags == 3
\* Largest number of inputs the user types at the prompt for the bump type.
MaxInputs == 3
\* Largest number of commands run one after the other in a repository.
MaxCommands == 3

(***************************************************************************)
(* Python str and list primitives.                                         *)
(***************************************************************************)
NL == "\n"

\* s[i] of a Python list or str (0-based).
At(s, i) == s[i + 1]

\* s[a:b] for 0 <= a and b <= len(s); empty when b <= a.
Slice(s, a, b) == SubSeq(s, a + 1, b)

\* The characters str.strip() and str.rstrip() remove.
IsSpace(c) == c \in {" ", "\t", "\r"}

RECURSIVE lstrip(_)
lstrip(s) == IF s = <<>> \/ ~IsSpace(Head(s)) THEN s ELSE lstrip(Tail(s))

RECURSIVE rstrip(_)
rstrip(s) ==
    IF s = <<>> \/ ~IsSpace(s[Len(s)]) THEN s ELSE rstrip(SubSeq(s, 1, Len(s) - 1))

strip(s) == rstrip(lstrip(s))

startswith(s, prefix) ==
    /\ Len(s) >= Len(prefix)
    /\ SubSeq(s, 1, Len(prefix)) = prefix

\* Case folding, of re.IGNORECASE and of str.lower, on the letters of the pattern and
\* of the bump types.
LowerChar(c) ==
    CASE c = "U" -> "u" [] c = "N" -> "n" [] c = "R" -> "r" [] c = "E" -> "e"
      [] c = "L" -> "l" [] c = "A" -> "a" [] c = "S" -> "s" [] c = "D" -> "d"
      [] c = "M" -> "m" [] c = "P" -> "p" [] c = "J" -> "j" [] c = "O" -> "o"
      [] c = "I" -> "i" [] c = "T" -> "t" [] c = "C" -> "c" [] c = "H" -> "h"
      [] OTHER -> c

lower(s) == [i \in 1..Len(s) |-> LowerChar(s[i])]

\* The position (1-based) of the first "\n" of text at or after i, Len(text) + 1 if none.
RECURSIVE find_newline(_, _)
find_newline(text, i) ==
    IF i > Len(text) THEN i ELSE IF text[i] = NL THEN i ELSE find_newline(text, i + 1)

\* The pieces of text from position i on, cut at every "\n".
RECURSIVE split_from(_, _)
split_from(text, i) ==
    LET k == find_newline(text, i) IN
    IF k > Len(text) THEN <<SubSeq(text, i, Len(text))>>
    ELSE <<SubSeq(text, i, k - 1)>> \o split_from(text, k + 1)

\* text.split("\n"): always at least one element.
split(text) == split_from(text, 1)

\* "\n".join(lines)
RECURSIVE join(_)
join(lines) ==
    IF lines = <<>> THEN <<>>
    ELSE IF Len(lines) = 1 THEN lines[1]
    ELSE lines[1] \o <<NL>> \o join(Tail(lines))

(***************************************************************************)
(* The header patterns.                                                    *)
(***************************************************************************)
UnreleasedHeader == <<"#", "#", " ", "u", "n", "r", "e", "l", "e", "a", "s", "e", "d">>

\* UNRELEASED_PATTERN.match(s) is not None: ^## Unreleased$ with re.IGNORECASE.
\* (s is always a stripped line, so "$" has no trailing newline to skip.)
UNRELEASED_PATTERN_match(s) == lower(s) = UnreleasedHeader

\* Mutant of version_header: the header is written with one "#".
version_header_one_hash(version, date) ==
    <<"#", " ">> \o version \o <<" ", "-", " ">> \o date

\* The position after the run of digits (\d+, possibly empty) of s that starts at i.
RECURSIVE skip_digits(_, _)
skip_digits(s, i) ==
    IF i <= Len(s) /\ s[i] \in {"0", "1", "2", "3", "4", "5", "6", "7", "8", "9"}
        THEN skip_digits(s, i + 1)
        ELSE i

\* VERSION_HEADER_PATTERN.match(s): ^## (\d+\.\d+\.\d+) - (\d{4}-\d{2}-\d{2})$ on a
\* stripped line; ok tells whether it matched, version and date are its groups.
VERSION_HEADER_PATTERN_match(s) ==
    LET isdigit(c) == c \in {"0", "1", "2", "3", "4", "5", "6", "7", "8", "9"}
        p1 == skip_digits(s, 4)
        p2 == skip_digits(s, p1 + 1)
        p3 == skip_digits(s, p2 + 1)
        ok == /\ Len(s) >= 3
              /\ SubSeq(s, 1, 3) = <<"#", "#", " ">>
              /\ p1 > 4
              /\ p1 <= Len(s)
              /\ s[p1] = "."
              /\ p2 > p1 + 1
              /\ p2 <= Len(s)
              /\ s[p2] = "."
              /\ p3 > p2 + 1
              /\ Len(s) = p3 + 12
              /\ SubSeq(s, p3, p3 + 2) = <<" ", "-", " ">>
              /\ \A k \in {3, 4, 5, 6, 8, 9, 11, 12} : isdigit(s[p3 + k])
              /\ s[p3 + 7] = "-"
              /\ s[p3 + 10] = "-"
    IN  IF ok THEN [ok |-> TRUE, version |-> SubSeq(s, 4, p3 - 1),
                    date |-> SubSeq(s, p3 + 3, p3 + 12)]
        ELSE [ok |-> FALSE, version |-> <<>>, date |-> <<>>]

\* f"## {version} - {date}"
version_header(version, date) ==
    <<"#", "#", " ">> \o version \o <<" ", "-", " ">> \o date

(***************************************************************************)
(* datetime.strptime(date, "%Y-%m-%d"): the format compiles to the regex   *)
(*   (?P<Y>\d\d\d\d)-(?P<m>1[0-2]|0[1-9]|[1-9])-                            *)
(*   (?P<d>3[0-1]|[1-2]\d|0[1-9]|[1-9]| [1-9])                              *)
(* which must match the whole string, and the fields must name a day of    *)
(* the proleptic Gregorian calendar with 1 <= year.                        *)
(***************************************************************************)
Digits == {"0", "1", "2", "3", "4", "5", "6", "7", "8", "9"}

DigitVal(c) ==
    CASE c = "0" -> 0 [] c = "1" -> 1 [] c = "2" -> 2 [] c = "3" -> 3 [] c = "4" -> 4
      [] c = "5" -> 5 [] c = "6" -> 6 [] c = "7" -> 7 [] c = "8" -> 8 [] c = "9" -> 9

\* Position (1-based) of the first "-" of s at or after position i, 0 if none.
RECURSIVE find_dash(_, _)
find_dash(s, i) ==
    IF i > Len(s) THEN 0 ELSE IF s[i] = "-" THEN i ELSE find_dash(s, i + 1)

\* The value of a month field, 0 if it does not match 1[0-2]|0[1-9]|[1-9].
month_field(f) ==
    IF Len(f) = 1 /\ f[1] \in Digits \ {"0"} THEN DigitVal(f[1])
    ELSE IF Len(f) = 2 /\ f[1] = "1" /\ f[2] \in {"0", "1", "2"} THEN 10 + DigitVal(f[2])
    ELSE IF Len(f) = 2 /\ f[1] = "0" /\ f[2] \in Digits \ {"0"} THEN DigitVal(f[2])
    ELSE 0

\* The value of a day field, 0 if it does not match 3[0-1]|[1-2]\d|0[1-9]|[1-9]| [1-9].
day_field(f) ==
    IF Len(f) = 1 /\ f[1] \in Digits \ {"0"} THEN DigitVal(f[1])
    ELSE IF Len(f) = 2 /\ f[1] = "3" /\ f[2] \in {"0", "1"} THEN 30 + DigitVal(f[2])
    ELSE IF Len(f) = 2 /\ f[1] \in {"1", "2"} /\ f[2] \in Digits
        THEN 10 * DigitVal(f[1]) + DigitVal(f[2])
    ELSE IF Len(f) = 2 /\ f[1] \in {"0", " "} /\ f[2] \in Digits \ {"0"} THEN DigitVal(f[2])
    ELSE 0

is_leap(y) == y % 4 = 0 /\ (y % 100 # 0 \/ y % 400 = 0)

days_in_month(y, m) ==
    IF m = 2 THEN (IF is_leap(y) THEN 29 ELSE 28)
    ELSE IF m \in {4, 6, 9, 11} THEN 30 ELSE 31

\* TRUE iff datetime.strptime(date, "%Y-%m-%d") returns, FALSE iff it raises ValueError.
strptime_ok(date) ==
    /\ Len(date) >= 8
    /\ \A i \in 1..4 : date[i] \in Digits
    /\ date[5] = "-"
    /\ LET d2 == find_dash(date, 6) IN
        /\ d2 # 0
        /\ LET y == 1000 * DigitVal(date[1]) + 100 * DigitVal(date[2])
                     + 10 * DigitVal(date[3]) + DigitVal(date[4])
               m == month_field(SubSeq(date, 6, d2 - 1))
               d == day_field(SubSeq(date, d2 + 1, Len(date)))
           IN  /\ y >= 1
               /\ m # 0
               /\ d # 0
               /\ d <= days_in_month(y, m)

(***************************************************************************)
(* ChangelogManager._find_unreleased_section                               *)
(***************************************************************************)
\* The outer loop: the index of the first Unreleased header at or after i, or -1.
RECURSIVE scan_unreleased(_, _)
scan_unreleased(lines, i) ==
    IF i >= Len(lines) THEN -1
    ELSE IF UNRELEASED_PATTERN_match(strip(At(lines, i))) THEN i
    ELSE scan_unreleased(lines, i + 1)

\* The inner loop over j: content_start and content_end as the loop leaves them
\* (content_end stays -1 when the first non-blank line does not start with "##").
RECURSIVE scan_content_start(_, _)
scan_content_start(lines, j) ==
    IF j >= Len(lines) THEN [start |-> Len(lines), end |-> Len(lines)]
    ELSE IF strip(At(lines, j)) # <<>>
        THEN IF startswith(strip(At(lines, j)), <<"#", "#">>)
                THEN [start |-> j, end |-> j]
                ELSE [start |-> j, end |-> -1]
    ELSE scan_content_start(lines, j + 1)

\* Mutant of scan_content_end: an Unreleased header ends the section too.
RECURSIVE scan_content_end_any_header(_, _)
scan_content_end_any_header(lines, i) ==
    IF i >= Len(lines) THEN Len(lines)
    ELSE IF startswith(strip(At(lines, i)), <<"#", "#", " ">>) THEN i
    ELSE scan_content_end_any_header(lines, i + 1)

\* The second loop: the first line at or after i that starts a "## " section and is
\* not an Unreleased header, or len(lines).
RECURSIVE scan_content_end(_, _)
scan_content_end(lines, i) ==
    IF i >= Len(lines) THEN Len(lines)
    ELSE IF /\ startswith(strip(At(lines, i)), <<"#", "#", " ">>)
            /\ ~UNRELEASED_PATTERN_match(strip(At(lines, i)))
        THEN i
    ELSE scan_content_end(lines, i + 1)

\* Mutant of find_unreleased_section: a missing header is not reported, the section
\* is taken to be empty, at the end of the document.
find_unreleased_section_no_raise(lines) ==
    LET unreleased_start == scan_unreleased(lines, 0) IN
    IF unreleased_start = -1 THEN [err |-> FALSE, start |-> Len(lines), end |-> Len(lines)]
    ELSE LET first == scan_content_start(lines, unreleased_start + 1) IN
         IF first.start < Len(lines)
            THEN [err |-> FALSE, start |-> first.start,
                  end |-> scan_content_end(lines, first.start)]
            ELSE [err |-> FALSE, start |-> first.start, end |-> first.end]

\* Mutant of find_unreleased_section: the second loop runs only when the first left
\* content_end unset, so a first line that starts with "##" always gives (j, j).
find_unreleased_section_keeps_first(lines) ==
    LET unreleased_start == scan_unreleased(lines, 0) IN
    IF unreleased_start = -1 THEN [err |-> TRUE, start |-> -1, end |-> -1]
    ELSE LET first == scan_content_start(lines, unreleased_start + 1) IN
         IF first.end = -1
            THEN [err |-> FALSE, start |-> first.start,
                  end |-> scan_content_end(lines, first.start)]
            ELSE [err |-> FALSE, start |-> first.start, end |-> first.end]

\* err is TRUE when ChangelogError("'## Unreleased' section not found") is raised.
find_unreleased_section(lines) ==
    LET unreleased_start == scan_unreleased(lines, 0) IN
    IF unreleased_start = -1 THEN [err |-> TRUE, start |-> -1, end |-> -1]
    ELSE LET first == scan_content_start(lines, unreleased_start + 1) IN
         IF first.start < Len(lines)
            THEN [err |-> FALSE, start |-> first.start,
                  end |-> scan_content_end(lines, first.start)]
            ELSE [err |-> FALSE, start |-> first.start, end |-> first.end]

(***************************************************************************)
(* ChangelogManager.extract_unreleased_content, after the read.            *)
(***************************************************************************)
\* Mutant of collect_content: blank lines are not skipped.
RECURSIVE collect_content_keeps_blank(_, _, _)
collect_content_keeps_blank(lines, i, content_end) ==
    IF i >= content_end THEN <<>>
    ELSE <<rstrip(At(lines, i))>> \o collect_content_keeps_blank(lines, i + 1, content_end)

RECURSIVE collect_content(_, _, _)
collect_content(lines, i, content_end) ==
    IF i >= content_end THEN <<>>
    ELSE LET line == rstrip(At(lines, i)) IN
         IF strip(line) # <<>>
            THEN <<line>> \o collect_content(lines, i + 1, content_end)
            ELSE collect_content(lines, i + 1, content_end)

\* Mutant of extract_lines: the lines are returned as they are, trailing whitespace
\* included.
extract_lines_raw(lines, content_start, content_end) ==
    SelectSeq(Slice(lines, content_start, content_end), LAMBDA line : strip(line) # <<>>)

extract_lines(lines, content_start, content_end) ==
    collect_content(lines, content_start, content_end)

(***************************************************************************)
(* ChangelogManager.move_unreleased_to_version, after the read.            *)
(***************************************************************************)
\* while unreleased_content and not unreleased_content[0].strip(): pop(0)
RECURSIVE pop_leading_blank(_)
pop_leading_blank(content) ==
    IF content # <<>> /\ strip(Head(content)) = <<>>
        THEN pop_leading_blank(Tail(content))
        ELSE content

\* Mutant of pop_trailing_blank: trailing blank lines are kept.
pop_trailing_blank_keeps(content) == content

\* while unreleased_content and not unreleased_content[-1].strip(): pop()
RECURSIVE pop_trailing_blank(_)
pop_trailing_blank(content) ==
    IF content # <<>> /\ strip(content[Len(content)]) = <<>>
        THEN pop_trailing_blank(SubSeq(content, 1, Len(content) - 1))
        ELSE content

trimmed_content(lines, content_start, content_end) ==
    pop_trailing_blank(pop_leading_blank(Slice(lines, content_start, content_end)))

\* Mutant of build_new_lines: the rest of the document is taken from one line too far.
build_new_lines_skips_line(lines, unreleased_start, content_end, unreleased_content, version, date) ==
    Slice(lines, 0, unreleased_start + 1)
        \o <<<<>>>>
        \o (IF unreleased_content # <<>>
                THEN <<version_header(version, date), <<>>>> \o unreleased_content \o <<<<>>>>
                ELSE <<>>)
        \o Slice(lines, content_end + 1, Len(lines))

\* Mutant of build_new_lines: the empty line after the Unreleased header is written
\* only together with a version section.
build_new_lines_no_blank(lines, unreleased_start, content_end, unreleased_content, version, date) ==
    Slice(lines, 0, unreleased_start + 1)
        \o (IF unreleased_content # <<>>
                THEN <<<<>>, version_header(version, date), <<>>>>
                        \o unreleased_content \o <<<<>>>>
                ELSE <<>>)
        \o Slice(lines, content_end, Len(lines))

\* Mutant of build_new_lines: the version section is written without content too.
build_new_lines_always_header(lines, unreleased_start, content_end, unreleased_content, version, date) ==
    Slice(lines, 0, unreleased_start + 1)
        \o <<<<>>>>
        \o <<version_header(version, date), <<>>>> \o unreleased_content \o <<<<>>>>
        \o Slice(lines, content_end, Len(lines))

\* new_lines, built from the header index, the content range and the trimmed content.
build_new_lines(lines, unreleased_start, content_end, unreleased_content, version, date) ==
    Slice(lines, 0, unreleased_start + 1)
        \o <<<<>>>>
        \o (IF unreleased_content # <<>>
                THEN <<version_header(version, date), <<>>>> \o unreleased_content \o <<<<>>>>
                ELSE <<>>)
        \o Slice(lines, content_end, Len(lines))


(***************************************************************************)
(* The changelog file and the operations of ChangelogManager on it.        *)
(***************************************************************************)
\* The file at changelog_path: absent, or holding a text.
NoFile == [exists |-> FALSE, text |-> <<>>]

File(text) == [exists |-> TRUE, text |-> text]

\* A byte sequence that is not UTF-8: f.read() raises UnicodeDecodeError on a file
\* that holds one, and read_changelog turns this into a ChangelogError.
BadByte == "\\xff"

decodable(text) == \A i \in 1..Len(text) : text[i] # BadByte

\* The text create_initial_changelog writes, line by line.
InitialLines ==
    << <<"#", " ", "C", "h", "a", "n", "g", "e", "l", "o", "g">>,
       <<>>,
       <<"A", "l", "l", " ", "n", "o", "t", "a", "b", "l", "e", " ", "c", "h", "a", "n", "g",
         "e", "s", " ", "t", "o", " ", "t", "h", "i", "s", " ", "p", "r", "o", "j", "e", "c",
         "t", " ", "w", "i", "l", "l", " ", "b", "e", " ", "d", "o", "c", "u", "m", "e", "n",
         "t", "e", "d", " ", "i", "n", " ", "t", "h", "i", "s", " ", "f", "i", "l", "e", ".">>,
       <<>>,
       <<"T", "h", "e", " ", "f", "o", "r", "m", "a", "t", " ", "i", "s", " ", "b", "a", "s",
         "e", "d", " ", "o", "n", " ", "[", "K", "e", "e", "p", " ", "a", " ", "C", "h", "a",
         "n", "g", "e", "l", "o", "g", "]", "(", "h", "t", "t", "p", "s", ":", "/", "/", "k",
         "e", "e", "p", "a", "c", "h", "a", "n", "g", "e", "l", "o", "g", ".", "c", "o", "m",
         "/", "e", "n", "/", "1", ".", "0", ".", "0", "/", ")", ",">>,
       <<"a", "n", "d", " ", "t", "h", "i", "s", " ", "p", "r", "o", "j", "e", "c", "t", " ",
         "a", "d", "h", "e", "r", "e", "s", " ", "t", "o", " ", "[", "S", "e", "m", "a", "n",
         "t", "i", "c", " ", "V", "e", "r", "s", "i", "o", "n", "i", "n", "g", "]", "(", "h",
         "t", "t", "p", "s", ":", "/", "/", "s", "e", "m", "v", "e", "r", ".", "o", "r", "g",
         "/", "s", "p", "e", "c", "/", "v", "2", ".", "0", ".", "0", ".", "h", "t", "m", "l",
         ")", ".">>,
       <<>>,
       <<"#", "#", " ", "U", "n", "r", "e", "l", "e", "a", "s", "e", "d">>,
       <<>>,
       <<>> >>

initial_content == join(InitialLines)

\* What an operation reports: how it ended, the content range it computed (when it
\* got that far) and the list it returned (extract_unreleased_content only).
Outcome(status, file, range, value) ==
    [status |-> status, file |-> file, start |-> range.start, end |-> range.end,
     value |-> value]

NoRange == [start |-> -1, end |-> -1]

\* extract_unreleased_content(): read_changelog raises when the file is missing or
\* cannot be read, _find_unreleased_section raises when there is no Unreleased header.
extract_unreleased_content(file) ==
    IF ~file.exists THEN Outcome("FileNotFound", file, NoRange, <<>>)
    ELSE IF ~decodable(file.text) THEN Outcome("ReadError", file, NoRange, <<>>)
    ELSE LET lines == split(file.text)
             range == find_unreleased_section(lines)
         IN  IF range.err THEN Outcome("SectionNotFound", file, NoRange, <<>>)
             ELSE Outcome("ok", file, range, extract_lines(lines, range.start, range.end))

\* move_unreleased_to_version(version, date), date already defaulted to today.
move_unreleased_to_version(file, version, date) ==
    IF ~strptime_ok(date) THEN Outcome("InvalidDate", file, NoRange, <<>>)
    ELSE IF ~file.exists THEN Outcome("FileNotFound", file, NoRange, <<>>)
    ELSE IF ~decodable(file.text) THEN Outcome("ReadError", file, NoRange, <<>>)
    ELSE LET lines == split(file.text)
             unreleased_start == scan_unreleased(lines, 0)
         IN  IF unreleased_start = -1 THEN Outcome("SectionNotFound", file, NoRange, <<>>)
             ELSE LET range == find_unreleased_section(lines)
                      unreleased_content == trimmed_content(lines, range.start, range.end)
                      new_lines == build_new_lines(lines, unreleased_start, range.end,
                                                   unreleased_content, version, date)
                  IN  Outcome("ok", File(join(new_lines)), range, <<>>)

\* Mutant of has_unreleased_content: True whenever the section was found.
has_unreleased_content_found(file) ==
    LET out == extract_unreleased_content(file) IN
    [out EXCEPT !.status = "ok", !.value = (out.status = "ok")]

\* has_unreleased_content(): True when extract_unreleased_content returns a
\* non-empty list, False when it returns an empty one or raises ChangelogError.
has_unreleased_content(file) ==
    LET out == extract_unreleased_content(file) IN
    [out EXCEPT !.status = "ok",
                !.value = IF out.status = "ok" THEN Len(out.value) > 0 ELSE FALSE]

\* Mutant of collect_versions: the lines are matched as they are, not stripped.
RECURSIVE collect_versions_no_strip(_, _)
collect_versions_no_strip(lines, i) ==
    IF i >= Len(lines) THEN <<>>
    ELSE LET match == VERSION_HEADER_PATTERN_match(At(lines, i)) IN
         (IF match.ok THEN << <<match.version, match.date>> >> ELSE <<>>)
            \o collect_versions_no_strip(lines, i + 1)

\* The loop of get_version_sections from line i on: the groups of every match.
RECURSIVE collect_versions(_, _)
collect_versions(lines, i) ==
    IF i >= Len(lines) THEN <<>>
    ELSE LET match == VERSION_HEADER_PATTERN_match(strip(At(lines, i))) IN
         (IF match.ok THEN << <<match.version, match.date>> >> ELSE <<>>)
            \o collect_versions(lines, i + 1)

\* get_version_sections(): read_changelog may raise.
get_version_sections(file) ==
    IF ~file.exists THEN Outcome("FileNotFound", file, NoRange, <<>>)
    ELSE IF ~decodable(file.text) THEN Outcome("ReadError", file, NoRange, <<>>)
    ELSE Outcome("ok", file, NoRange, collect_versions(split(file.text), 0))

\* The issues validate_changelog_format appends; an issue is written as the pieces
\* its f-string puts together.
IssueNoFile == <<"CHANGELOG.md does not exist">>

IssueCannotRead == <<"Cannot read changelog: ", "Failed to read changelog: ", "UnicodeDecodeError">>

IssueMissingUnreleased == <<"Missing '## Unreleased' section">>

IssueInvalidHeader(i, text) == <<"Line ", i, ": Invalid version header format: '", text, "'">>

\* Mutant of header_issues: the lines are numbered from 0.
RECURSIVE header_issues_from_zero(_, _)
header_issues_from_zero(lines, i) ==
    IF i > Len(lines) THEN <<>>
    ELSE LET text == strip(lines[i]) IN
         (IF /\ startswith(text, <<"#", "#", " ">>)
             /\ ~UNRELEASED_PATTERN_match(text)
             /\ ~VERSION_HEADER_PATTERN_match(text).ok
            THEN <<IssueInvalidHeader(i - 1, text)>>
            ELSE <<>>)
            \o header_issues_from_zero(lines, i + 1)

\* for i, line in enumerate(lines, 1): the header issues from line number i on.
RECURSIVE header_issues(_, _)
header_issues(lines, i) ==
    IF i > Len(lines) THEN <<>>
    ELSE LET text == strip(lines[i]) IN
         (IF /\ startswith(text, <<"#", "#", " ">>)
             /\ ~UNRELEASED_PATTERN_match(text)
             /\ ~VERSION_HEADER_PATTERN_match(text).ok
            THEN <<IssueInvalidHeader(i, text)>>
            ELSE <<>>)
            \o header_issues(lines, i + 1)

\* validate_changelog_format()
validate_changelog_format(file) ==
    IF ~file.exists THEN Outcome("ok", file, NoRange, <<IssueNoFile>>)
    ELSE IF ~decodable(file.text) THEN Outcome("ok", file, NoRange, <<IssueCannotRead>>)
    ELSE LET lines == split(file.text) IN
         Outcome("ok", file, NoRange,
                 (IF scan_unreleased(lines, 0) = -1 THEN <<IssueMissingUnreleased>> ELSE <<>>)
                    \o header_issues(lines, 1))

(***************************************************************************)
(* Inputs.                                                                 *)
(***************************************************************************)
\* The lines the starting changelogs are made of: a blank line (written with one
\* space: the empty lines of a changelog are the ones move_unreleased_to_version and
\* create_initial_changelog write), the Unreleased header in lower case and indented
\* (create_initial_changelog writes it plainly), a deeper header, an entry with
\* trailing whitespace, and the header of a version section, indented (the moves
\* write plain ones).
LineSpace == <<" ">>
LineUnreleased == <<" ", "#", "#", " ", "u", "n", "r", "e", "l", "e", "a", "s", "e", "d">>
LineAdded == <<"#", "#", "#", " ", "A", "d", "d", "e", "d">>
LineItem == <<"-", " ", "x", " ">>
LineVersion ==
    <<" ", "#", "#", " ", "0", ".", "9", ".", "0", " ", "-", " ", "2", "0", "2", "3", "-",
      "1", "1", "-", "0", "1">>

InputLines ==
    {LineSpace, LineUnreleased, LineAdded, LineItem, LineVersion}

\* The changelogs the model starts from: 1..MaxLines lines (a text always splits
\* into at least one line).
InputDocuments == UNION {[1..n -> InputLines] : n \in 1..MaxLines}

Versions == {<<"1", ".", "2", ".", "0">>}

DateValid == <<"2", "0", "2", "4", "-", "0", "1", "-", "1", "5">>
\* The dates a caller passes: a day of the calendar, 2024-13-01, and the day 2024-1-5
\* written without zero-padding.
Dates ==
    {DateValid,
     <<"2", "0", "2", "4", "-", "1", "3", "-", "0", "1">>,
     <<"2", "0", "2", "4", "-", "1", "-", "5">>}

\* What datetime.now().strftime("%Y-%m-%d") may return: the model runs on the day
\* of DateValid.
Todays == {DateValid}

\* date: Optional[str], None or a text.
DateArgs == {[given |-> FALSE, text |-> <<>>]} \cup {[given |-> TRUE, text |-> d] : d \in Dates}

(***************************************************************************)
(* grm/version_manager.py: Version and VersionManager.  A Version is a     *)
(* record of three integers, tags are texts, and None stands for Python's  *)
(* None where the code returns an Optional[Version].                       *)
(***************************************************************************)
Version(major, minor, patch) == [major |-> major, minor |-> minor, patch |-> patch]

None == [major |-> -1, minor |-> -1, patch |-> -1]

\* Version.__lt__: the order of the tuples (major, minor, patch).
Version_lt(a, b) ==
    \/ a.major < b.major
    \/ a.major = b.major /\ a.minor < b.minor
    \/ a.major = b.major /\ a.minor = b.minor /\ a.patch < b.patch

bump_major(v) == Version(v.major + 1, 0, 0)

\* Mutant of bump_minor: the patch number is kept.
bump_minor_keeps_patch(v) == Version(v.major, v.minor + 1, v.patch)

bump_minor(v) == Version(v.major, v.minor + 1, 0)

bump_patch(v) == Version(v.major, v.minor, v.patch + 1)

\* int(s) of a string of decimal digits.
RECURSIVE int(_)
int(s) ==
    IF Len(s) = 0 THEN 0
    ELSE 10 * int(SubSeq(s, 1, Len(s) - 1)) + DigitVal(s[Len(s)])

\* SEMVER_PATTERN.match(s): ^(\d+)\.(\d+)\.(\d+)$, where $ also matches before a
\* line break that ends s; ok tells whether it matched, groups are its groups.
SEMVER_PATTERN_match(s) ==
    LET p1 == skip_digits(s, 1)
        p2 == skip_digits(s, p1 + 1)
        p3 == skip_digits(s, p2 + 1)
        ok == /\ p1 > 1
              /\ p1 <= Len(s)
              /\ s[p1] = "."
              /\ p2 > p1 + 1
              /\ p2 <= Len(s)
              /\ s[p2] = "."
              /\ p3 > p2 + 1
              /\ \/ p3 = Len(s) + 1
                 \/ p3 = Len(s) /\ s[p3] = NL
    IN  IF ok THEN [ok |-> TRUE, groups |-> <<SubSeq(s, 1, p1 - 1), SubSeq(s, p1 + 1, p2 - 1),
                                              SubSeq(s, p2 + 1, p3 - 1)>>]
        ELSE [ok |-> FALSE, groups |-> <<>>]

\* The prefixes in the order the code lists them.
Prefixes == <<<<"v">>, <<"v", "e", "r", "s", "i", "o", "n", "-">>, <<"r", "e", "l", "e", "a", "s", "e", "-">>>>

\* sorted(prefixes, key=len, reverse=True): longest first, prefixes of one length in
\* the order they had.
RECURSIVE sorted_by_len_reverse(_)
sorted_by_len_reverse(prefixes) ==
    IF Len(prefixes) = 0 THEN <<>>
    ELSE LET rest == sorted_by_len_reverse(Tail(prefixes))
             head == Head(prefixes)
             k == Cardinality({i \in 1..Len(rest) : Len(rest[i]) > Len(head)})
         IN  SubSeq(rest, 1, k) \o <<head>> \o SubSeq(rest, k + 1, Len(rest))

\* The inner loop of _parse_versions: the tag without the first of prefixes it starts
\* with, or the tag itself.
RECURSIVE clean_tag(_, _)
clean_tag(tag, prefixes) ==
    IF Len(prefixes) = 0 THEN tag
    ELSE IF startswith(tag, Head(prefixes))
        THEN Slice(tag, Len(Head(prefixes)), Len(tag))
        ELSE clean_tag(tag, Tail(prefixes))

\* The outer loop of _parse_versions from the 0-based tag i on: the versions of the
\* tags that match, in the order of the tags.
RECURSIVE collect_tag_versions(_, _)
collect_tag_versions(tags, i) ==
    IF i >= Len(tags) THEN <<>>
    ELSE LET match == SEMVER_PATTERN_match(clean_tag(At(tags, i), sorted_by_len_reverse(Prefixes)))
         IN  (IF match.ok
                 THEN <<Version(int(match.groups[1]), int(match.groups[2]), int(match.groups[3]))>>
                 ELSE <<>>)
                \o collect_tag_versions(tags, i + 1)

\* Mutant of sorted: the versions stay in the order of the tags.
sorted_keeps_order(versions) == versions

\* sorted(versions): ascending by Version.__lt__, equal versions in the order they had.
RECURSIVE sorted(_)
sorted(versions) ==
    IF Len(versions) = 0 THEN <<>>
    ELSE LET front == sorted(SubSeq(versions, 1, Len(versions) - 1))
             v == versions[Len(versions)]
             k == Cardinality({i \in 1..Len(front) : ~Version_lt(v, front[i])})
         IN  SubSeq(front, 1, k) \o <<v>> \o SubSeq(front, k + 1, Len(front))

parse_versions(tags) == sorted(collect_tag_versions(tags, 0))

\* VersionManager(tags): the object after __init__.
VersionManager(tags) == [tags |-> tags, versions |-> parse_versions(tags)]

\* Mutant of get_latest_version: the first version of the catalog is returned.
get_latest_version_first(self) ==
    IF Len(self.versions) = 0 THEN None ELSE self.versions[1]

get_latest_version(self) ==
    IF Len(self.versions) = 0 THEN None ELSE self.versions[Len(self.versions)]

\* version_exists: `version in self._versions`, with the equality of the dataclass.
version_exists(self, version) == \E i \in 1..Len(self.versions) : self.versions[i] = version

get_next_minor_version(self) ==
    LET latest == get_latest_version(self) IN
    IF latest = None THEN Version(0, 1, 0) ELSE bump_minor(latest)

get_next_patch_version(self) ==
    LET latest == get_latest_version(self) IN
    IF latest = None THEN Version(0, 0, 1) ELSE bump_patch(latest)

get_next_major_version(self) ==
    LET latest == get_latest_version(self) IN
    IF latest = None THEN Version(1, 0, 0) ELSE bump_major(latest)

\* suggest_version(bump_type): the manager after the call, and the version returned
\* or the ValueError raised.
suggest_version(self, bump_type) ==
    IF bump_type = "major"
        THEN [self |-> self, status |-> "ok", value |-> get_next_major_version(self)]
    ELSE IF bump_type = "minor"
        THEN [self |-> self, status |-> "ok", value |-> get_next_minor_version(self)]
    ELSE IF bump_type = "patch"
        THEN [self |-> self, status |-> "ok", value |-> get_next_patch_version(self)]
    ELSE [self |-> self, status |-> "ValueError", value |-> None]

\* Version.__str__: f"{major}.{minor}.{patch}", for the numbers below 100.
Version_str(v) ==
    LET char(n) == CHOOSE c \in Digits : DigitVal(c) = n
        str(n) == IF n < 10 THEN <<char(n)>> ELSE <<char(n \div 10), char(n % 10)>>
    IN  str(v.major) \o <<".">> \o str(v.minor) \o <<".">> \o str(v.patch)

\* The answer before any call, the repository and the command where none is modelled.
NoAnswer ==
    [op |-> "none", bump_type |-> "", status |-> "ok", value |-> None,
     before |-> VersionManager(<<>>)]

NoRepository == [branches |-> {}]

NoCommand == [command |-> "none"]

(***************************************************************************)
(* The state machine: the file, and the record of the last call.           *)
(***************************************************************************)
Record(op, version, date, before, out) ==
    [op |-> op, version |-> version, date |-> date, before |-> before,
     status |-> out.status, start |-> out.start, end |-> out.end, value |-> out.value]

Init ==
    /\ changelog \in {NoFile} \cup {File(join(d)) : d \in InputDocuments}
    /\ last = Record("none", <<>>, <<>>, NoFile, Outcome("ok", NoFile, NoRange, <<>>))
    /\ manager = VersionManager(<<>>)
    /\ answer = NoAnswer
    /\ git = NoRepository
    /\ run = NoCommand

\* create_initial_changelog() overwrites whatever is there; nothing of the file it
\* replaces is recorded.
CreateInitialChangelog ==
    /\ changelog' = File(initial_content)
    /\ last' = Record("create", <<>>, <<>>, NoFile,
                      Outcome("ok", NoFile, NoRange, <<>>))
    /\ UNCHANGED <<manager, answer, git, run>>

ExtractUnreleasedContent ==
    \E out \in {extract_unreleased_content(changelog)} :
        /\ changelog' = out.file
        /\ last' = Record("extract", <<>>, <<>>, changelog, out)
        /\ UNCHANGED <<manager, answer, git, run>>

MoveUnreleasedToVersion(version, arg, today) ==
    LET date == IF arg.given THEN arg.text ELSE today IN
    \E out \in {move_unreleased_to_version(changelog, version, date)} :
        /\ changelog' = out.file
        /\ last' = Record("move", version, date, changelog, out)
        /\ UNCHANGED <<manager, answer, git, run>>

Next ==
    \/ CreateInitialChangelog
    \/ ExtractUnreleasedContent
    \/ \E version \in Versions, arg \in DateArgs, today \in Todays :
            MoveUnreleasedToVersion(version, arg, today)

Spec == Init /\ [][Next]_vars

(***************************************************************************)
(* The reporting operations of ChangelogManager, which leave the file as   *)
(* it is, on changelogs that hold headers of version sections.             *)
(***************************************************************************)
\* The header of a version section as a move writes it, and a header that has not
\* the version-header shape, indented.
LineVersionNew ==
    <<"#", "#", " ", "1", ".", "2", ".", "0", " ", "-", " ", "2", "0", "2", "4", "-", "0",
      "1", "-", "1", "5">>

ReportLines ==
    {LineSpace, LineUnreleased, LineAdded, LineVersion, LineVersionNew,
     <<" ", "#", "#", " ", "1", ".", "2", ".", "0", " ", "-", " ", "2", "0", "2", "4", "-",
       "1", "-", "5">>}

ReportDocuments == UNION {[1..n -> ReportLines] : n \in 1..MaxLines}

InitReport ==
    /\ changelog \in {NoFile, File(<<BadByte>>)} \cup {File(join(d)) : d \in ReportDocuments}
    /\ last = Record("none", <<>>, <<>>, NoFile, Outcome("ok", NoFile, NoRange, <<>>))
    /\ manager = VersionManager(<<>>)
    /\ answer = NoAnswer
    /\ git = NoRepository
    /\ run = NoCommand

HasUnreleasedContent ==
    \E out \in {has_unreleased_content(changelog)} :
        /\ changelog' = out.file
        /\ last' = Record("has_content", <<>>, <<>>, changelog, out)
        /\ UNCHANGED <<manager, answer, git, run>>

GetVersionSections ==
    \E out \in {get_version_sections(changelog)} :
        /\ changelog' = out.file
        /\ last' = Record("versions", <<>>, <<>>, changelog, out)
        /\ UNCHANGED <<manager, answer, git, run>>

ValidateChangelogFormat ==
    \E out \in {validate_changelog_format(changelog)} :
        /\ changelog' = out.file
        /\ last' = Record("validate", <<>>, <<>>, changelog, out)
        /\ UNCHANGED <<manager, answer, git, run>>

NextReport ==
    \/ HasUnreleasedContent
    \/ GetVersionSections
    \/ ValidateChangelogFormat

SpecReport == InitReport /\ [][NextReport]_vars

(***************************************************************************)
(* The version catalog as a state machine: a VersionManager built from a   *)
(* list of tags, and the answer of the last call made on it.               *)
(***************************************************************************)
\* A tag without a prefix, one with each prefix (two of them naming 1.2.3), one
\* with two prefixes, one with two numbers and one with a suffix.
Tags ==
    {<<"0", ".", "9", ".", "0">>,
     <<"v", "1", ".", "2", ".", "3">>,
     <<"v", "e", "r", "s", "i", "o", "n", "-", "0", ".", "1", "0", ".", "0">>,
     <<"r", "e", "l", "e", "a", "s", "e", "-", "1", ".", "2", ".", "3">>,
     <<"v", "r", "e", "l", "e", "a", "s", "e", "-", "9", ".", "0", ".", "0">>,
     <<"1", ".", "2">>,
     <<"1", ".", "2", ".", "3", "-", "r", "c">>}

\* The catalog of every list of up to MaxTags tags.
InitVersions ==
    /\ manager \in {VersionManager(tags) : tags \in UNION {[1..n -> Tags] : n \in 0..MaxTags}}
    /\ answer = NoAnswer
    /\ changelog = NoFile
    /\ last = Record("none", <<>>, <<>>, NoFile, Outcome("ok", NoFile, NoRange, <<>>))
    /\ git = NoRepository
    /\ run = NoCommand

GetLatestVersion ==
    /\ answer' = [op |-> "latest", bump_type |-> "", status |-> "ok",
                  value |-> get_latest_version(manager), before |-> manager]
    /\ UNCHANGED <<manager, changelog, last, git, run>>

SuggestVersion(bump_type) ==
    \E out \in {suggest_version(manager, bump_type)} :
        /\ manager' = out.self
        /\ answer' = [op |-> "suggest", bump_type |-> bump_type, status |-> out.status,
                      value |-> out.value, before |-> manager]
        /\ UNCHANGED <<changelog, last, git, run>>

\* The bump types a caller passes: the three of the code and two it does not know.
NextVersions ==
    \/ GetLatestVersion
    \/ \E bump_type \in {"major", "minor", "patch", "Minor", ""} : SuggestVersion(bump_type)

SpecVersions == InitVersions /\ [][NextVersions]_vars

(***************************************************************************)
(* grm/git_operations.py: GitManager over a repository.  A repository has  *)
(* its local branches, the branch checked out, its tags in the order they  *)
(* are listed, a working directory that is dirty or clean, and a remote or *)
(* none.  An operation of git succeeds or fails as the argument ok (or     *)
(* env) tells, and fails anyway where git cannot do it; it returns the     *)
(* repository after it and the status, "ok" or "GitOperationError".        *)
(***************************************************************************)
Repository(branches, current, tags, dirty, remote) ==
    [branches |-> branches, current |-> current, tags |-> tags, dirty |-> dirty,
     remote |-> remote]

GitOk(repo) == [status |-> "ok", repo |-> repo]

GitOperationError(repo) == [status |-> "GitOperationError", repo |-> repo]

BranchMain == <<"m", "a", "i", "n">>
BranchMaster == <<"m", "a", "s", "t", "e", "r">>
BranchDevelop == <<"d", "e", "v", "e", "l", "o", "p">>

is_working_directory_clean(repo) == ~repo.dirty

\* get_integration_branch(): status and the name found.
get_integration_branch(repo) ==
    IF BranchMain \in repo.branches THEN [status |-> "ok", value |-> BranchMain]
    ELSE IF BranchMaster \in repo.branches THEN [status |-> "ok", value |-> BranchMaster]
    ELSE [status |-> "GitOperationError", value |-> <<>>]

\* Mutant of get_release_source_branch: releases are created from the integration
\* branch, with or without a develop branch.
get_release_source_branch_integration(repo) == get_integration_branch(repo)

get_release_source_branch(repo) ==
    IF BranchDevelop \in repo.branches THEN [status |-> "ok", value |-> BranchDevelop]
    ELSE get_integration_branch(repo)

get_all_tags(repo) == repo.tags

\* Mutant of branch_exists: only the branch checked out is found.
branch_exists_current_only(repo, branch_name) == branch_name = repo.current

get_current_branch_name(repo) == repo.current

branch_exists(repo, branch_name) == branch_name \in repo.branches

has_remote(repo) == repo.remote

\* create_branch(branch_name, checkout=True): env is "ok", "create_fails" or
\* "checkout_fails"; create_head fails on a branch that exists, and a checkout that
\* fails leaves the new branch behind.
create_branch(repo, branch_name, env) ==
    IF branch_name \in repo.branches \/ env = "create_fails" THEN GitOperationError(repo)
    ELSE IF env = "checkout_fails"
        THEN GitOperationError([repo EXCEPT !.branches = @ \cup {branch_name}])
    ELSE GitOk([repo EXCEPT !.branches = @ \cup {branch_name}, !.current = branch_name])

checkout_branch(repo, branch_name, ok) ==
    IF branch_name \notin repo.branches \/ ~ok THEN GitOperationError(repo)
    ELSE GitOk([repo EXCEPT !.current = branch_name])

\* commit_changes, merge_branch, push_branch and pull_branch change commits only,
\* which the repository of the model does not hold.
commit_changes(repo, ok) == IF ok THEN GitOk(repo) ELSE GitOperationError(repo)

merge_branch(repo, branch_name, ok) ==
    IF branch_name \notin repo.branches \/ ~ok THEN GitOperationError(repo) ELSE GitOk(repo)

push_branch(repo, ok) == IF ok /\ repo.remote THEN GitOk(repo) ELSE GitOperationError(repo)

pull_branch(repo, ok) == IF ok /\ repo.remote THEN GitOk(repo) ELSE GitOperationError(repo)

create_tag(repo, tag_name, ok) ==
    IF (\E i \in 1..Len(repo.tags) : repo.tags[i] = tag_name) \/ ~ok
        THEN GitOperationError(repo)
        ELSE GitOk([repo EXCEPT !.tags = Append(@, tag_name)])

\* delete_branch(branch_name, force=False, delete_remote): env is "ok", "local_fails"
\* or "remote_fails"; git does not delete the branch checked out; local tells whether
\* the local branch was deleted, which the message of the error tells the caller.
delete_branch(repo, branch_name, delete_remote, env) ==
    IF branch_name \notin repo.branches \/ branch_name = repo.current \/ env = "local_fails"
        THEN [status |-> "GitOperationError", local |-> FALSE, repo |-> repo]
    ELSE IF delete_remote /\ env = "remote_fails"
        THEN [status |-> "GitOperationError", local |-> TRUE,
              repo |-> [repo EXCEPT !.branches = @ \ {branch_name}]]
    ELSE [status |-> "ok", local |-> TRUE, repo |-> [repo EXCEPT !.branches = @ \ {branch_name}]]

(***************************************************************************)
(* grm/cli.py: the commands release and finish, one action for each step.  *)
(* run holds the command, its position pc, its locals, the steps it has    *)
(* performed, and how it ended: exit is -1 while it runs.                  *)
(***************************************************************************)
\* A step performed: the operation, the name it was given (a branch, a tag, a version
\* or a file), the branch checked out when it was performed, and its message.
Step(op, name, on, message) == [op |-> op, name |-> name, on |-> on, message |-> message]

ChangelogFile == <<"C", "H", "A", "N", "G", "E", "L", "O", "G", ".", "m", "d">>
ReleasePrefix == <<"r", "e", "l", "e", "a", "s", "e", "/">>
CommitMessage == <<"C", "h", "a", "n", "g", "e", "l", "o", "g">>
SetUpstream == <<"-", "-", "s", "e", "t", "-", "u", "p", "s", "t", "r", "e", "a", "m">>

\* str.replace(old, new): every occurrence of old, from the left, that does not
\* overlap an earlier one.
RECURSIVE replace(_, _, _)
replace(s, old, new) ==
    IF Len(s) = 0 THEN <<>>
    ELSE IF startswith(s, old)
        THEN new \o replace(Slice(s, Len(old), Len(s)), old, new)
        ELSE <<Head(s)>> \o replace(Tail(s), old, new)

\* The command when it is started.
Started(command, bump_type, repo, file) ==
    [command |-> command, pc |-> "preconditions", exit |-> -1, bump_type |-> bump_type,
     new_version |-> None, release_branch_name |-> <<>>, current_branch |-> <<>>,
     version |-> <<>>, integration_branch |-> <<>>, steps |-> <<>>,
     failure |-> [kind |-> "none", after |-> 0], declined |-> "none", prompts |-> <<>>,
     earlier |-> <<>>,
     start |-> [repo |-> repo, changelog |-> file]]

\* The step is added to the steps performed.
performed(r, step) == [r EXCEPT !.steps = Append(@, step)]

\* confirm_action(message) or click.prompt: the prompt is shown and answered, after the
\* steps performed so far.  A prompt repeated at once is recorded when it is left.
asked(r, prompt) == [r EXCEPT !.prompts = Append(@, [prompt |-> prompt, after |-> Len(r.steps)])]

\* Mutant of error_exit: the error is printed and the command goes on.
error_exit_goes_on(r, kind) ==
    [r EXCEPT !.failure = [kind |-> kind, after |-> Len(r.steps)]]

\* error_exit(message): sys.exit(1).  The exceptions the command catches, and the
\* ones main() catches, end in it.
error_exit(r, kind) ==
    [r EXCEPT !.pc = "exit", !.exit = 1,
              !.failure = [kind |-> kind, after |-> Len(r.steps)]]

\* Mutant of cancelled: the command ends as it does on an error.
cancelled_as_error(r, prompt) == [r EXCEPT !.pc = "exit", !.exit = 1, !.declined = prompt]

\* The user declined the confirmation of the command: it prints a message and returns.
cancelled(r, prompt) == [r EXCEPT !.pc = "exit", !.exit = 0, !.declined = prompt]

\* The command returns after its last step.
finished(r) == [r EXCEPT !.pc = "exit", !.exit = 0]

goto(r, pc) == [r EXCEPT !.pc = pc]

\* What the user types at the prompt for the bump type: M, m, P, nothing, x, MaJoR,
\* Minor, patcH, " p" and mp.
Typed ==
    {<<"M">>, <<"m">>, <<"P">>, <<>>, <<"x">>, <<"M", "a", "J", "o", "R">>,
     <<"M", "i", "n", "o", "r">>, <<"p", "a", "t", "c", "H">>, <<" ", "p">>, <<"m", "p">>}

\* Mutant of prompt_for_bump_type: the test for M ignores the case.
prompt_for_bump_type_any_m(typed) ==
    LET choice == strip(typed) IN
    IF lower(choice) \in {<<"m">>, <<"m", "a", "j", "o", "r">>} THEN "major"
    ELSE IF lower(choice) \in {<<"p">>, <<"p", "a", "t", "c", "h">>} THEN "patch"
    ELSE IF lower(choice) \in {<<"m", "i", "n", "o", "r">>, <<>>} THEN "minor"
    ELSE "again"

\* _prompt_for_bump_type: the bump type for what the user typed, "again" when the
\* prompt is shown once more.  click.prompt gives "m" for an empty input.
prompt_for_bump_type(typed) ==
    LET choice == strip(IF typed = <<>> THEN <<"m">> ELSE typed) IN
    IF choice = <<"M">> \/ lower(choice) = <<"m", "a", "j", "o", "r">> THEN "major"
    ELSE IF lower(choice) \in {<<"p">>, <<"p", "a", "t", "c", "h">>} THEN "patch"
    ELSE IF lower(choice) \in {<<"m">>, <<"m", "i", "n", "o", "r">>, <<>>} THEN "minor"
    ELSE "again"

\* Mutant of release_step_after: the branch is pushed before the changelog is committed.
release_step_after_push_first(pc) ==
    CASE pc = "confirm" -> "create"
      [] pc = "create" -> "move"
      [] OTHER -> "push"

\* Mutant of release_step_after: the changelog is moved before the branch is created.
release_step_after_move_first(pc) ==
    CASE pc = "confirm" -> "move"
      [] pc = "move" -> "create"
      [] pc = "create" -> "commit"
      [] OTHER -> "push"

\* The step of release that follows the step pc, from the confirmation on.
release_step_after(pc) ==
    CASE pc = "confirm" -> "create"
      [] pc = "create" -> "move"
      [] pc = "move" -> "commit"
      [] OTHER -> "push"

\* The command runs and is at the step pc.
Running(command, pc) == run.command = command /\ run.exit = -1 /\ run.pc = pc

\* _validate_release_preconditions: the working directory.
ReleaseCheckClean ==
    /\ Running("release", "preconditions")
    /\ run' = IF ~is_working_directory_clean(git) THEN error_exit(run, "dirty")
              ELSE goto(run, "branch")
    /\ UNCHANGED <<git, changelog, last, manager, answer>>

\* _validate_release_preconditions: the branch, with the switch to develop.
ReleaseCheckBranch(switch, ok) ==
    /\ Running("release", "branch")
    /\ LET source == get_release_source_branch(git)
           current_branch == get_current_branch_name(git)
           out == checkout_branch(git, source.value, ok)
       IN  IF source.status # "ok"
               THEN run' = error_exit(run, "no_integration_branch") /\ git' = git
           ELSE IF current_branch = source.value
               THEN run' = goto(run, "changelog") /\ git' = git
           ELSE IF source.value = BranchDevelop /\ branch_exists(git, BranchDevelop)
               THEN IF ~switch
                       THEN run' = error_exit(asked(run, "switch"), "switch_declined") /\ git' = git
                    ELSE IF out.status # "ok"
                       THEN run' = error_exit(asked(run, "switch"), "checkout") /\ git' = out.repo
                    ELSE /\ git' = out.repo
                         /\ run' = goto(performed(asked(run, "switch"),
                                                  Step("checkout", source.value,
                                                       current_branch, <<>>)),
                                        IF has_remote(git) THEN "pull" ELSE "changelog")
           ELSE run' = error_exit(run, "wrong_branch") /\ git' = git
    /\ UNCHANGED <<changelog, last, manager, answer>>

\* _validate_release_preconditions: the pull after the switch; a pull that fails is
\* a warning.
ReleasePull(ok) ==
    /\ Running("release", "pull")
    /\ \E out \in {pull_branch(git, ok)} :
          /\ git' = out.repo
          /\ run' = goto(IF out.status = "ok"
                            THEN performed(run, Step("pull", BranchDevelop, git.current, <<>>))
                            ELSE run,
                         "changelog")
    /\ UNCHANGED <<changelog, last, manager, answer>>

\* _validate_release_preconditions: the changelog is created if the user agrees;
\* io_ok tells whether the file can be written.
ReleaseEnsureChangelog(create, io_ok) ==
    /\ Running("release", "changelog")
    /\ IF changelog.exists
          THEN run' = goto(run, "validate") /\ changelog' = changelog
       ELSE IF ~create
          THEN run' = error_exit(asked(run, "create_changelog"), "changelog_declined")
               /\ changelog' = changelog
       ELSE IF ~io_ok
          THEN run' = error_exit(asked(run, "create_changelog"), "changelog")
               /\ changelog' = changelog
       ELSE /\ changelog' = File(initial_content)
            /\ run' = goto(performed(asked(run, "create_changelog"),
                                     Step("create_changelog", ChangelogFile,
                                               git.current, <<>>)),
                           "validate")
    /\ UNCHANGED <<git, last, manager, answer>>

\* _validate_release_preconditions: the format of the changelog.
ReleaseValidateChangelog ==
    /\ Running("release", "validate")
    /\ \E issues \in {validate_changelog_format(changelog).value} :
          run' = IF Len(issues) > 0 THEN error_exit(run, "format_issues")
                 ELSE goto(run, "content")
    /\ UNCHANGED <<git, changelog, last, manager, answer>>

\* _validate_release_preconditions: the warning of a release without content.
ReleaseCheckContent(go_on) ==
    /\ Running("release", "content")
    /\ run' = IF has_unreleased_content(changelog).value THEN goto(run, "version")
              ELSE IF ~go_on THEN error_exit(asked(run, "continue_anyway"), "no_content")
              ELSE goto(asked(run, "continue_anyway"), "version")
    /\ UNCHANGED <<git, changelog, last, manager, answer>>

\* release: the version catalog of the tags, the comparison with the first version
\* section of the changelog, and the new version; typed is what the user answers to
\* the prompt for the bump type.
ReleaseDetermineVersion(typed) ==
    /\ Running("release", "version")
    /\ LET version_manager == VersionManager(get_all_tags(git))
           changelog_versions == get_version_sections(changelog)
           latest_tag_version == get_latest_version(version_manager)
           bump_type == IF run.bump_type = "none" THEN prompt_for_bump_type(typed)
                        ELSE run.bump_type
           out == suggest_version(version_manager, bump_type)
           prompted == IF run.bump_type = "none" THEN asked(run, "bump_type") ELSE run
       IN  IF changelog_versions.status # "ok"
               THEN run' = error_exit(run, "changelog")
           ELSE IF /\ Len(changelog_versions.value) > 0
                   /\ latest_tag_version # None
                   /\ Version_str(latest_tag_version) # changelog_versions.value[1][1]
               THEN run' = error_exit(run, "version_mismatch")
           ELSE IF bump_type = "again"
               THEN run' = run
           ELSE IF out.status # "ok"
               THEN run' = error_exit(prompted, "bump_type")
           ELSE run' = [goto(prompted, "confirm") EXCEPT !.bump_type = bump_type,
                                                     !.new_version = out.value]
    /\ UNCHANGED <<git, changelog, last, manager, answer>>

\* release: "Create release <new version>?"
ReleaseConfirm(yes) ==
    /\ Running("release", "confirm")
    /\ run' = IF yes THEN goto(asked(run, "release"), release_step_after("confirm"))
              ELSE cancelled(asked(run, "release"), "release")
    /\ UNCHANGED <<git, changelog, last, manager, answer>>

\* release: the release branch is created and checked out.
ReleaseCreateBranch(env) ==
    /\ Running("release", "create")
    /\ LET release_branch_name == ReleasePrefix \o Version_str(run.new_version)
           out == create_branch(git, release_branch_name, env)
           named == [run EXCEPT !.release_branch_name = release_branch_name]
           created == performed(named, Step("create_branch", release_branch_name,
                                            git.current, <<>>))
       IN  /\ git' = out.repo
           /\ run' = IF out.status = "ok"
                        THEN goto(performed(created, Step("checkout", release_branch_name,
                                                          git.current, <<>>)),
                                  release_step_after("create"))
                     ELSE error_exit(IF out.repo.branches # git.branches THEN created
                                     ELSE named,
                                     "create_branch")
    /\ UNCHANGED <<changelog, last, manager, answer>>

\* release: the Unreleased content is moved to the new version, dated today; io_ok
\* tells whether the file can be written.
ReleaseMoveChangelog(today, io_ok) ==
    /\ Running("release", "move")
    /\ \E out \in {move_unreleased_to_version(changelog, Version_str(run.new_version), today)} :
          IF out.status = "ok" /\ io_ok
              THEN /\ changelog' = out.file
                   /\ run' = goto(performed(run, Step("move", Version_str(run.new_version),
                                                      git.current, <<>>)),
                                  release_step_after("move"))
              ELSE /\ changelog' = changelog
                   /\ run' = error_exit(run, "changelog")
    /\ UNCHANGED <<git, last, manager, answer>>

\* release: CHANGELOG.md is committed.
ReleaseCommit(ok) ==
    /\ Running("release", "commit")
    /\ \E out \in {commit_changes(git, ok)} :
          /\ git' = out.repo
          /\ run' = IF out.status = "ok"
                        THEN goto(performed(run, Step("commit", ChangelogFile, git.current,
                                                      CommitMessage)),
                                  release_step_after("commit"))
                        ELSE error_exit(run, "commit")
    /\ UNCHANGED <<changelog, last, manager, answer>>

\* release: the release branch is pushed if there is a remote; a push that fails is a
\* warning.
ReleasePush(ok) ==
    /\ Running("release", "push")
    /\ \E out \in {push_branch(git, ok)} :
          /\ git' = out.repo
          /\ run' = finished(IF has_remote(git) /\ out.status = "ok"
                                THEN performed(run, Step("push", run.release_branch_name,
                                                         git.current, SetUpstream))
                                ELSE run)
    /\ UNCHANGED <<changelog, last, manager, answer>>

NextRelease ==
    \/ ReleaseCheckClean
    \/ \E switch, ok \in BOOLEAN : ReleaseCheckBranch(switch, ok)
    \/ \E ok \in BOOLEAN : ReleasePull(ok)
    \/ \E create, io_ok \in BOOLEAN : ReleaseEnsureChangelog(create, io_ok)
    \/ ReleaseValidateChangelog
    \/ \E go_on \in BOOLEAN : ReleaseCheckContent(go_on)
    \/ \E typed \in Typed : ReleaseDetermineVersion(typed)
    \/ \E yes \in BOOLEAN : ReleaseConfirm(yes)
    \/ \E env \in {"ok", "create_fails", "checkout_fails"} : ReleaseCreateBranch(env)
    \/ \E today \in Todays, io_ok \in BOOLEAN : ReleaseMoveChangelog(today, io_ok)
    \/ \E ok \in BOOLEAN : ReleaseCommit(ok)
    \/ \E ok \in BOOLEAN : ReleasePush(ok)

\* _validate_finish_preconditions, and the locals of finish: the version is the name
\* of the branch with "release/" replaced by nothing.
FinishCheckPreconditions ==
    /\ Running("finish", "preconditions")
    /\ LET current_branch == get_current_branch_name(git)
           integration_branch == get_integration_branch(git)
       IN  run' = IF ~is_working_directory_clean(git) THEN error_exit(run, "dirty")
                  ELSE IF ~startswith(current_branch, ReleasePrefix)
                      THEN error_exit(run, "wrong_branch")
                  ELSE IF integration_branch.status # "ok"
                      THEN error_exit(run, "no_integration_branch")
                  ELSE [goto(run, "confirm") EXCEPT
                            !.current_branch = current_branch,
                            !.version = replace(current_branch, ReleasePrefix, <<>>),
                            !.integration_branch = integration_branch.value]
    /\ UNCHANGED <<git, changelog, last, manager, answer>>

\* finish: "Finish release <version>?"
FinishConfirm(yes) ==
    /\ Running("finish", "confirm")
    /\ run' = IF yes THEN goto(asked(run, "finish"), "checkout")
              ELSE cancelled(asked(run, "finish"), "finish")
    /\ UNCHANGED <<git, changelog, last, manager, answer>>

\* finish: the integration branch is checked out.
FinishCheckoutIntegration(ok) ==
    /\ Running("finish", "checkout")
    /\ \E out \in {checkout_branch(git, run.integration_branch, ok)} :
          /\ git' = out.repo
          /\ run' = IF out.status = "ok"
                        THEN goto(performed(run, Step("checkout", run.integration_branch,
                                                      git.current, <<>>)),
                                  IF has_remote(git) THEN "pull" ELSE "merge")
                        ELSE error_exit(run, "checkout")
    /\ UNCHANGED <<changelog, last, manager, answer>>

\* finish: the integration branch is pulled; after a pull that fails the user chooses
\* whether to go on.
FinishPullIntegration(ok, go_on) ==
    /\ Running("finish", "pull")
    /\ \E out \in {pull_branch(git, ok)} :
          /\ git' = out.repo
          /\ run' = IF out.status = "ok"
                        THEN goto(performed(run, Step("pull", run.integration_branch,
                                                      git.current, <<>>)),
                                  "merge")
                    ELSE IF go_on THEN goto(asked(run, "continue_merge"), "merge")
                    ELSE error_exit(asked(run, "continue_merge"), "pull_declined")
    /\ UNCHANGED <<changelog, last, manager, answer>>

\* finish: the release branch is merged into the branch checked out, with no_ff=True
\* and the message f"Finish {version}".
FinishMerge(ok) ==
    /\ Running("finish", "merge")
    /\ \E out \in {merge_branch(git, run.current_branch, ok)} :
          /\ git' = out.repo
          /\ run' = IF out.status = "ok"
                        THEN goto(performed(run, Step("merge_no_ff", run.current_branch,
                                                      git.current, <<"F", "i", "n", "i", "s", "h", " ">> \o run.version)),
                                  "tag")
                        ELSE error_exit(run, "merge")
    /\ UNCHANGED <<changelog, last, manager, answer>>

\* finish: the tag is created.
FinishCreateTag(ok) ==
    /\ Running("finish", "tag")
    /\ \E out \in {create_tag(git, run.version, ok)} :
          /\ git' = out.repo
          /\ run' = IF out.status = "ok"
                        THEN goto(performed(run, Step("create_tag", run.version, git.current,
                                                      <<>>)),
                                  IF branch_exists(git, BranchDevelop) THEN "develop"
                                  ELSE "delete")
                        ELSE error_exit(run, "create_tag")
    /\ UNCHANGED <<changelog, last, manager, answer>>

\* finish: develop is checked out for the merge back.
FinishCheckoutDevelop(ok) ==
    /\ Running("finish", "develop")
    /\ \E out \in {checkout_branch(git, BranchDevelop, ok)} :
          /\ git' = out.repo
          /\ run' = IF out.status = "ok"
                        THEN goto(performed(run, Step("checkout", BranchDevelop, git.current,
                                                      <<>>)),
                                  IF has_remote(git) THEN "develop_pull" ELSE "develop_merge")
                        ELSE error_exit(run, "checkout")
    /\ UNCHANGED <<changelog, last, manager, answer>>

\* finish: develop is pulled.
FinishPullDevelop(ok, go_on) ==
    /\ Running("finish", "develop_pull")
    /\ \E out \in {pull_branch(git, ok)} :
          /\ git' = out.repo
          /\ run' = IF out.status = "ok"
                        THEN goto(performed(run, Step("pull", BranchDevelop, git.current, <<>>)),
                                  "develop_merge")
                    ELSE IF go_on THEN goto(asked(run, "continue_merge"), "develop_merge")
                    ELSE error_exit(asked(run, "continue_merge"), "pull_declined")
    /\ UNCHANGED <<changelog, last, manager, answer>>

\* finish: the integration branch is merged into the branch checked out.
FinishMergeBack(ok) ==
    /\ Running("finish", "develop_merge")
    /\ \E out \in {merge_branch(git, run.integration_branch, ok)} :
          /\ git' = out.repo
          /\ run' = IF out.status = "ok"
                        THEN goto(performed(run, Step("merge_no_ff", run.integration_branch,
                                                      git.current, <<"F", "i", "n", "i", "s", "h", " ">> \o run.version)),
                                  "delete")
                        ELSE error_exit(run, "merge")
    /\ UNCHANGED <<changelog, last, manager, answer>>

\* finish: the release branch is deleted, on the remote too if there is one; a remote
\* deletion that fails after the local one is a warning.
FinishDeleteBranch(env) ==
    /\ Running("finish", "delete")
    /\ \E out \in {delete_branch(git, run.current_branch, has_remote(git), env)} :
          /\ git' = out.repo
          /\ run' = IF out.status = "ok" \/ out.local
                        THEN goto(performed(run, Step("delete_branch", run.current_branch,
                                                      git.current, <<>>)),
                                  "push")
                        ELSE error_exit(run, "delete_branch")
    /\ UNCHANGED <<changelog, last, manager, answer>>

\* finish: with a remote, the integration branch, the tags and develop are pushed;
\* env is "ok", or the push that fails: "branch_fails" (a warning), "tags_fails" (the
\* error of git, which finish does not catch and main() turns into error_exit) or
\* "develop_fails" (a warning).
FinishPush(env) ==
    /\ Running("finish", "push")
    /\ LET pushed_branch == performed(run, Step("push", run.integration_branch, git.current,
                                                <<>>))
           pushed_tags == performed(pushed_branch, Step("push_tags", <<>>, git.current, <<>>))
           pushed_develop == performed(pushed_tags, Step("push", BranchDevelop, git.current,
                                                         <<>>))
       IN  run' = IF ~has_remote(git) THEN goto(run, "switch")
                  ELSE IF env = "branch_fails" THEN goto(run, "switch")
                  ELSE IF env = "tags_fails" THEN error_exit(pushed_branch, "push_tags")
                  ELSE IF ~branch_exists(git, BranchDevelop) \/ env = "develop_fails"
                      THEN goto(pushed_tags, "switch")
                  ELSE goto(pushed_develop, "switch")
    /\ UNCHANGED <<git, changelog, last, manager, answer>>

\* finish: develop, or the integration branch if there is no develop, is checked out.
FinishSwitch(ok) ==
    /\ Running("finish", "switch")
    /\ LET branch_name == IF branch_exists(git, BranchDevelop) THEN BranchDevelop
                          ELSE run.integration_branch
       IN  \E out \in {checkout_branch(git, branch_name, ok)} :
              /\ git' = out.repo
              /\ run' = IF out.status = "ok"
                            THEN finished(performed(run, Step("checkout", branch_name,
                                                              git.current, <<>>)))
                            ELSE error_exit(run, "checkout")
    /\ UNCHANGED <<changelog, last, manager, answer>>

NextFinish ==
    \/ FinishCheckPreconditions
    \/ \E yes \in BOOLEAN : FinishConfirm(yes)
    \/ \E ok \in BOOLEAN : FinishCheckoutIntegration(ok)
    \/ \E ok, go_on \in BOOLEAN : FinishPullIntegration(ok, go_on)
    \/ \E ok \in BOOLEAN : FinishMerge(ok)
    \/ \E ok \in BOOLEAN : FinishCreateTag(ok)
    \/ \E ok \in BOOLEAN : FinishCheckoutDevelop(ok)
    \/ \E ok, go_on \in BOOLEAN : FinishPullDevelop(ok, go_on)
    \/ \E ok \in BOOLEAN : FinishMergeBack(ok)
    \/ \E env \in {"ok", "local_fails", "remote_fails"} : FinishDeleteBranch(env)
    \/ \E env \in {"ok", "branch_fails", "tags_fails", "develop_fails"} : FinishPush(env)
    \/ \E ok \in BOOLEAN : FinishSwitch(ok)

(***************************************************************************)
(* The commands as a state machine: one command is started in a repository *)
(* with a changelog, and runs to its exit.                                 *)
(***************************************************************************)
\* The branches of a repository: main, master, develop, and the release branches
\* release/1.3.0 and release/release/2.0.0.
BranchNames ==
    {BranchMain, BranchMaster, BranchDevelop,
     <<"r", "e", "l", "e", "a", "s", "e", "/", "1", ".", "3", ".", "0">>,
     <<"r", "e", "l", "e", "a", "s", "e", "/", "r", "e", "l", "e", "a", "s", "e", "/", "2", ".", "0", ".", "0">>}

\* The tags of a repository: none, v1.2.0, or 1.3.0.
RepositoryTags == {<<>>, <<<<"v", "1", ".", "2", ".", "0">>>>, <<<<"1", ".", "3", ".", "0">>>>}

Repositories ==
    {Repository(branches, current, tags, dirty, remote) :
        branches \in SUBSET BranchNames, current \in BranchNames, tags \in RepositoryTags,
        dirty \in BOOLEAN, remote \in BOOLEAN}

\* The bump type of the command line: a flag, or "none" for no flag.
BumpFlags == {"none", "major", "minor", "patch"}

Changelogs ==
    {NoFile, File(initial_content), File(join(<<LineItem>>)),
     File(join(<<LineUnreleased, LineItem>>)),
     File(join(<<LineUnreleased, LineItem, LineVersionNew>>))}

InitCommands ==
    /\ git \in {repo \in Repositories : repo.current \in repo.branches}
    /\ changelog \in Changelogs
    /\ run \in {Started("release", bump_type, git, changelog) : bump_type \in BumpFlags}
                \cup {Started("finish", "none", git, changelog)}
    /\ last = Record("none", <<>>, <<>>, NoFile, Outcome("ok", NoFile, NoRange, <<>>))
    /\ manager = VersionManager(<<>>)
    /\ answer = NoAnswer

NextCommands == NextRelease \/ NextFinish

SpecCommands == InitCommands /\ [][NextCommands]_vars

(***************************************************************************)
(* Commands run one after the other in the same repository, starting with  *)
(* a release in a clean working directory.  run.earlier holds the commands *)
(* that ended before.                                                      *)
(***************************************************************************)
InitCycle ==
    /\ git \in {repo \in {Repository(branches, current, tags, FALSE, remote) :
                              branches \in {{BranchMain}, {BranchMain, BranchDevelop}},
                              current \in {BranchMain, BranchDevelop},
                              tags \in RepositoryTags, remote \in BOOLEAN} :
                    repo.current \in repo.branches}
    /\ changelog \in {File(initial_content), File(join(<<LineUnreleased, LineItem>>)),
                      File(join(<<LineUnreleased, LineItem, LineVersionNew>>)),
                      File(join(<<LineUnreleased, LineVersionNew, LineItem>>))}
    /\ run \in {Started("release", bump_type, git, changelog) : bump_type \in BumpFlags}
    /\ last = Record("none", <<>>, <<>>, NoFile, Outcome("ok", NoFile, NoRange, <<>>))
    /\ manager = VersionManager(<<>>)
    /\ answer = NoAnswer

\* The user runs the next command, in the repository and with the changelog the
\* command before left: a finish after a release that ran to its end, a release after
\* a finish that ran to its end.  Of the command that ended, run.earlier keeps how it
\* ended and the prompts it showed.
StartNext(command, bump_type) ==
    /\ run.command = (IF command = "finish" THEN "release" ELSE "finish")
    /\ run.pc = "exit"
    /\ run.exit = 0
    /\ run.declined = "none"
    /\ Len(run.earlier) + 1 < MaxCommands
    /\ run' = [Started(command, bump_type, git, changelog) EXCEPT
                  !.earlier = Append(run.earlier,
                                     [command |-> run.command, exit |-> run.exit,
                                      declined |-> run.declined, prompts |-> run.prompts])]
    /\ UNCHANGED <<git, changelog, last, manager, answer>>

NextCycle ==
    \/ NextRelease
    \/ NextFinish
    \/ \E bump_type \in BumpFlags : StartNext("release", bump_type)
    \/ StartNext("finish", "none")

SpecCycle == InitCycle /\ [][NextCycle]_vars

(***************************************************************************)
(* _prompt_for_bump_type as a state machine: the user types the inputs     *)
(* run.typed one after the other; run.shown counts the prompts answered.   *)
(* A prompt with no input left waits for ever.  The loop takes its next    *)
(* step whenever an input is there: weak fairness of the step.             *)
(***************************************************************************)
InitPrompt ==
    /\ run \in {[command |-> "prompt", pc |-> "prompt", typed |-> typed, shown |-> 0,
                 result |-> "none"] :
                    typed \in UNION {[1..n -> Typed] : n \in 0..MaxInputs}}
    /\ git = NoRepository
    /\ changelog = NoFile
    /\ last = Record("none", <<>>, <<>>, NoFile, Outcome("ok", NoFile, NoRange, <<>>))
    /\ manager = VersionManager(<<>>)
    /\ answer = NoAnswer

\* One turn of the loop `while True`: the prompt is answered; the function returns or
\* prints the hint and prompts again.
PromptForBumpType ==
    /\ run.command = "prompt"
    /\ run.pc = "prompt"
    /\ run.shown < Len(run.typed)
    /\ \E out \in {prompt_for_bump_type(run.typed[run.shown + 1])} :
          run' = IF out = "again" THEN [run EXCEPT !.shown = @ + 1]
                 ELSE [run EXCEPT !.shown = @ + 1, !.pc = "return", !.result = out]
    /\ UNCHANGED <<git, changelog, last, manager, answer>>

SpecPrompt == InitPrompt /\ [][PromptForBumpType]_vars /\ WF_vars(PromptForBumpType)

(***************************************************************************)
(* Vocabulary of the properties.  A line is blank when it holds only       *)
(* whitespace.  A line starts with "## " when these are its first three    *)
(* characters; the code tests the trimmed text of the line instead, so     *)
(* both readings are defined.                                              *)
(***************************************************************************)
Blank(line) == \A i \in 1..Len(line) : IsSpace(line[i])

\* The line's trimmed text equals "## Unreleased", compared case-insensitively.
IsUnreleasedHeader(line) ==
    lower(strip(line)) = <<"#", "#", " ", "u", "n", "r", "e", "l", "e", "a", "s", "e", "d">>

\* The line starts with "## ".
StartsSection(line) == Len(line) >= 3 /\ line[1] = "#" /\ line[2] = "#" /\ line[3] = " "

\* The line starts with "## " and is not an Unreleased header.
StartsOtherSection(line) == StartsSection(line) /\ ~IsUnreleasedHeader(line)

\* The line's trimmed text starts with "## ".
IsSectionHeader(line) == StartsSection(strip(line))

\* The line's trimmed text starts with "## " and the line is not an Unreleased header.
IsBoundary(line) == IsSectionHeader(line) /\ ~IsUnreleasedHeader(line)

Min(S) == CHOOSE x \in S : \A y \in S : x <= y

Max(S) == CHOOSE x \in S : \A y \in S : x >= y

\* The 0-based index of the first Unreleased header, -1 when there is none.
HeaderIndex(lines) ==
    LET S == {i \in 0..(Len(lines) - 1) : IsUnreleasedHeader(At(lines, i))} IN
    IF S = {} THEN -1 ELSE Min(S)

\* The number two digits write.
Numeral(f) == 10 * DigitVal(f[1]) + DigitVal(f[2])

\* The string has the shape YYYY-MM-DD (four digits, hyphen, two digits, hyphen,
\* two digits) and names a day of the calendar.
ValidDate(date) ==
    /\ Len(date) = 10
    /\ \A k \in {1, 2, 3, 4, 6, 7, 9, 10} : date[k] \in Digits
    /\ date[5] = "-"
    /\ date[8] = "-"
    /\ LET y == 100 * Numeral(SubSeq(date, 1, 2)) + Numeral(SubSeq(date, 3, 4))
           m == Numeral(SubSeq(date, 6, 7))
           d == Numeral(SubSeq(date, 9, 10))
       IN  /\ y >= 1
           /\ m \in 1..12
           /\ d >= 1
           /\ d <= (IF m = 2 THEN (IF y % 4 = 0 /\ (y % 100 # 0 \/ y % 400 = 0)
                                      THEN 29 ELSE 28)
                    ELSE IF m \in {4, 6, 9, 11} THEN 30 ELSE 31)

\* The lines of the changelog before and after the last call.
InLines == split(last.before.text)

OutLines == split(changelog.text)

\* The last call was move_unreleased_to_version with a valid date on a changelog,
\* of lines in, that has an Unreleased header.
MoveAppliesTo(in) ==
    /\ last.op = "move"
    /\ last.before.exists
    /\ ValidDate(last.date)
    /\ HeaderIndex(in) # -1

MoveApplies == MoveAppliesTo(InLines)

\* The indices of the non-blank lines among lines[from], ..., lines[to - 1].
NonBlankIn(lines, from, to) == {i \in from..(to - 1) : ~Blank(At(lines, i))}

(***************************************************************************)
(* C1  Content preservation: move_unreleased_to_version, on a changelog    *)
(* with an Unreleased header and with a valid date, succeeds; the output   *)
(* starts with the input lines up to and including the Unreleased header   *)
(* and ends with the input lines from contentEnd on, both unchanged and in *)
(* order, the two parts not overlapping.                                   *)
(***************************************************************************)
C1_ContentPreservation ==
    LET in == InLines
        out == OutLines
        u == HeaderIndex(in)
        n == Len(in) - last.end
    IN  MoveAppliesTo(in) =>
            /\ last.status = "ok"
            /\ Len(out) >= u + 1 + n
            /\ Slice(out, 0, u + 1) = Slice(in, 0, u + 1)
            /\ Slice(out, Len(out) - n, Len(out)) = Slice(in, last.end, Len(in))

\* A move of non-empty content that has a preamble before the header and a section
\* after the content.
C1_Witness ==
    /\ MoveApplies
    /\ last.status = "ok"
    /\ HeaderIndex(InLines) > 0
    /\ last.start < last.end
    /\ last.end < Len(InLines)

(***************************************************************************)
(* C2  The output of move_unreleased_to_version is exactly: the input      *)
(* lines up to and including the Unreleased header; one empty line; then,  *)
(* only if the content range holds a non-blank line, the line              *)
(* "## <version> - <date>", an empty line, the content lines from the      *)
(* first to the last non-blank one (interior blank lines kept) and one     *)
(* empty line; then the input lines from contentEnd on.  With no non-blank *)
(* content line the output is the first two parts and the last: no         *)
(* "## <version> - <date>" line is put into it.                            *)
(***************************************************************************)
C2_ExactOutput ==
    LET in == InLines
        head == Slice(in, 0, HeaderIndex(in) + 1)
        rest == Slice(in, last.end, Len(in))
        nonblank == NonBlankIn(in, last.start, last.end)
        heading == <<"#", "#", " ">> \o last.version \o <<" ", "-", " ">> \o last.date
    IN  MoveAppliesTo(in) =>
            /\ last.status = "ok"
            /\ IF nonblank = {}
                  THEN OutLines = head \o << <<>> >> \o rest
                  ELSE OutLines = head \o << <<>> >> \o <<heading, <<>> >>
                                    \o Slice(in, Min(nonblank), Max(nonblank) + 1)
                                    \o << <<>> >> \o rest

\* A move whose content has a blank line between two non-blank lines.
C2_Witness ==
    /\ MoveApplies
    /\ last.status = "ok"
    /\ LET in == InLines IN
       \E i, j, k \in last.start..(last.end - 1) :
            /\ i < j
            /\ j < k
            /\ ~Blank(At(in, i))
            /\ Blank(At(in, j))
            /\ ~Blank(At(in, k))

(***************************************************************************)
(* C3  On a changelog with no line whose trimmed text equals               *)
(* "## Unreleased" (case-insensitively), extract_unreleased_content and    *)
(* move_unreleased_to_version (with a valid date) both fail with the       *)
(* section-not-found error, and the stored changelog is left unchanged.    *)
(***************************************************************************)
C3_MissingSection ==
    (/\ last.op \in {"extract", "move"}
     /\ last.before.exists
     /\ last.op = "move" => ValidDate(last.date)
     /\ HeaderIndex(InLines) = -1)
        => /\ last.status = "SectionNotFound"
           /\ changelog = last.before

\* A move with a valid date on a changelog that has a version section and no
\* Unreleased header.
C3_Witness ==
    /\ last.op = "move"
    /\ last.before.exists
    /\ ValidDate(last.date)
    /\ LET in == InLines IN
        /\ HeaderIndex(in) = -1
        /\ \E i \in 0..(Len(in) - 1) : IsBoundary(At(in, i))
    /\ last.status = "SectionNotFound"

\* The Unreleased section of lines (which has an Unreleased header) is empty: the
\* first non-blank line after the header, if there is one, starts with "## " and is
\* not an Unreleased header.
SectionEmptyAsStated(lines) ==
    LET nonblank == NonBlankIn(lines, HeaderIndex(lines) + 1, Len(lines)) IN
    nonblank = {} \/ StartsOtherSection(At(lines, Min(nonblank)))

\* The same with the trimmed text of the line starting with "## ".
SectionEmpty(lines) ==
    LET nonblank == NonBlankIn(lines, HeaderIndex(lines) + 1, Len(lines)) IN
    nonblank = {} \/ IsBoundary(At(lines, Min(nonblank)))

(***************************************************************************)
(* C4 as stated: on a changelog whose Unreleased header is present and     *)
(* whose Unreleased section is empty, whatever the number of blank lines   *)
(* after the header, move_unreleased_to_version returns a text identical   *)
(* to its input.                                                           *)
(***************************************************************************)
C4_Original ==
    LET in == InLines IN
    (MoveAppliesTo(in) /\ SectionEmptyAsStated(in))
        => /\ last.status = "ok"
           /\ changelog.text = last.before.text

(***************************************************************************)
(* C4 amended: on a changelog whose Unreleased header is present and whose *)
(* Unreleased section is empty (the first non-blank line after the header, *)
(* if any, has a trimmed text that starts with "## " and is not an         *)
(* Unreleased header), move_unreleased_to_version returns the input lines  *)
(* up to and including the header, one empty line, and the input lines     *)
(* from contentEnd on, with no version section inserted; the text is       *)
(* identical to the input exactly when, in the input, one line lies        *)
(* between the header and contentEnd and that line is empty.               *)
(***************************************************************************)
C4_EmptySectionNormalised ==
    LET in == InLines
        u == HeaderIndex(in)
    IN  (MoveAppliesTo(in) /\ SectionEmpty(in))
            => /\ last.status = "ok"
               /\ OutLines = Slice(in, 0, u + 1) \o << <<>> >> \o Slice(in, last.end, Len(in))
               /\ (changelog.text = last.before.text)
                     <=> (Slice(in, u + 1, last.end) = << <<>> >>)

\* The move of the initial template, which ends two empty lines after the header.
C4_Witness ==
    /\ MoveApplies
    /\ last.before = File(initial_content)
    /\ last.status = "ok"
    /\ changelog # last.before

\* No non-blank line lies between the Unreleased header of lines and the next line
\* that starts with "## " (the end of the document if there is none).
BlankUpToNextHeaderAsStated(lines) ==
    LET u == HeaderIndex(lines)
        headers == {i \in (u + 1)..(Len(lines) - 1) : StartsSection(At(lines, i))}
        next == IF headers = {} THEN Len(lines) ELSE Min(headers)
    IN  \A i \in (u + 1)..(next - 1) : Blank(At(lines, i))

\* The same with the next line whose trimmed text starts with "## ".
BlankUpToNextHeader(lines) ==
    LET u == HeaderIndex(lines)
        headers == {i \in (u + 1)..(Len(lines) - 1) : IsSectionHeader(At(lines, i))}
        next == IF headers = {} THEN Len(lines) ELSE Min(headers)
    IN  \A i \in (u + 1)..(next - 1) : Blank(At(lines, i))

\* The dates a call of move_unreleased_to_version may work with.
CallDates == {IF arg.given THEN arg.text ELSE today : arg \in DateArgs, today \in Todays}

(***************************************************************************)
(* C5 as stated: after any successful move_unreleased_to_version the       *)
(* Unreleased section is empty: extract_unreleased_content returns the     *)
(* empty list and no non-blank line lies between the Unreleased header and *)
(* the next line that starts with "## "; and a second                      *)
(* move_unreleased_to_version, with any version and any valid date, leaves *)
(* the text unchanged.                                                     *)
(***************************************************************************)
C5_Original ==
    (last.op = "move" /\ last.status = "ok")
        => /\ extract_unreleased_content(changelog).value = <<>>
           /\ BlankUpToNextHeaderAsStated(OutLines)
           /\ \A version \in Versions, date \in CallDates :
                ValidDate(date) =>
                    move_unreleased_to_version(changelog, version, date).file = changelog

(***************************************************************************)
(* C5 amended: after any successful move_unreleased_to_version the         *)
(* Unreleased section is empty: extract_unreleased_content returns the     *)
(* empty list and no non-blank line lies between the Unreleased header and *)
(* the next line whose trimmed text starts with "## "; and a second        *)
(* move_unreleased_to_version, with any version and any valid date,        *)
(* succeeds, leaves the text unchanged and so adds no version section.     *)
(***************************************************************************)
C5_MoveThenMoveIsNoOp ==
    (last.op = "move" /\ last.status = "ok")
        => /\ LET extracted == extract_unreleased_content(changelog) IN
                /\ extracted.status = "ok"
                /\ extracted.value = <<>>
           /\ BlankUpToNextHeader(OutLines)
           /\ \A version \in Versions, date \in CallDates :
                ValidDate(date) =>
                    LET second == move_unreleased_to_version(changelog, version, date) IN
                    /\ second.status = "ok"
                    /\ second.file = changelog

\* A second move of a changelog whose version section an earlier move wrote: it
\* succeeded and the text is the one it read.
C5_Witness ==
    /\ last.op = "move"
    /\ last.status = "ok"
    /\ ValidDate(last.date)
    /\ changelog = last.before
    /\ LET in == InLines IN
       \E i \in 0..(Len(in) - 1) :
            \E date \in CallDates :
                At(in, i) = <<"#", "#", " ">> \o last.version \o <<" ", "-", " ">> \o date

\* The non-blank lines of a list of lines, in order.
NonBlankLines(lines) == SelectSeq(lines, LAMBDA line : ~Blank(line))

\* Every line with its trailing whitespace removed.
Rstripped(lines) == [i \in 1..Len(lines) |-> rstrip(lines[i])]

\* The index of the header the move wrote: the first line after the Unreleased
\* header that reads "## <version> - <date>".
NewHeaderIndex(out, version, date) ==
    Min({i \in (HeaderIndex(out) + 1)..(Len(out) - 1) :
            At(out, i) = <<"#", "#", " ">> \o version \o <<" ", "-", " ">> \o date})

\* The index of the first line at or after from that starts with "## ", or len(lines).
NextSectionHeader(lines, from) ==
    LET later == {i \in from..(Len(lines) - 1) : StartsSection(At(lines, i))} IN
    IF later = {} THEN Len(lines) ELSE Min(later)

\* The index of the first line at or after from that starts with "## " and is not
\* an Unreleased header, or len(lines).
NextOtherSection(lines, from) ==
    LET later == {i \in from..(Len(lines) - 1) : StartsOtherSection(At(lines, i))} IN
    IF later = {} THEN Len(lines) ELSE Min(later)

\* The index of the first line at or after from whose trimmed text starts with "## "
\* and that is not an Unreleased header, or len(lines).
NextBoundary(lines, from) ==
    LET later == {i \in from..(Len(lines) - 1) : IsBoundary(At(lines, i))} IN
    IF later = {} THEN Len(lines) ELSE Min(later)

\* The last call was a successful move of a non-empty Unreleased section.
MovedContent ==
    LET in == InLines IN
    /\ MoveAppliesTo(in)
    /\ last.status = "ok"
    /\ NonBlankIn(in, last.start, last.end) # {}

(***************************************************************************)
(* C6 as stated: for a changelog D with non-empty Unreleased content,      *)
(* extract_unreleased_content(D) equals, element by element, the non-blank *)
(* lines of the version section the move creates: the lines after the new  *)
(* "## v - d" header up to the next line starting with "## ", or the end.  *)
(***************************************************************************)
C6_Original ==
    MovedContent =>
        LET out == OutLines
            h == NewHeaderIndex(out, last.version, last.date)
        IN  extract_unreleased_content(last.before).value
                = NonBlankLines(Slice(out, h + 1, NextSectionHeader(out, h + 1)))

(***************************************************************************)
(* C6 amended: extract_unreleased_content(D) equals, element by element,   *)
(* the non-blank lines, each with its trailing whitespace removed, of the  *)
(* version section the move creates: the lines after the new "## v - d"    *)
(* header up to the next line whose trimmed text starts with "## " and     *)
(* that is not an Unreleased header, or the end of the document.           *)
(***************************************************************************)
C6_ExtractMatchesMoved ==
    MovedContent =>
        LET out == OutLines
            h == NewHeaderIndex(out, last.version, last.date)
        IN  extract_unreleased_content(last.before).value
                = Rstripped(NonBlankLines(Slice(out, h + 1, NextBoundary(out, h + 1))))

\* A move of content that holds a second Unreleased header and an entry with
\* trailing whitespace.
C6_Witness ==
    /\ MovedContent
    /\ LET in == InLines IN
        /\ \E i \in last.start..(last.end - 1) : IsUnreleasedHeader(At(in, i))
        /\ \E i \in last.start..(last.end - 1) :
                ~Blank(At(in, i)) /\ rstrip(At(in, i)) # At(in, i)

\* The last call located the Unreleased section.
Located == last.op \in {"extract", "move"} /\ last.status = "ok"

(***************************************************************************)
(* C7 as stated: _find_unreleased_section uses the first Unreleased header *)
(* and returns (len, len) when no non-blank line follows it; (j, j) when   *)
(* the first non-blank line after it, at j, starts with "## " and is not   *)
(* an Unreleased header; and otherwise (j, e), e the index of the first    *)
(* line at or after j that starts with "## " and is not an Unreleased      *)
(* header, or len if there is none.                                        *)
(***************************************************************************)
C7_Original ==
    Located =>
        LET in == InLines
            nonblank == NonBlankIn(in, HeaderIndex(in) + 1, Len(in))
        IN  IF nonblank = {}
               THEN last.start = Len(in) /\ last.end = Len(in)
               ELSE LET j == Min(nonblank) IN
                    IF StartsOtherSection(At(in, j))
                       THEN last.start = j /\ last.end = j
                       ELSE /\ last.start = j
                            /\ last.end = NextOtherSection(in, j)

(***************************************************************************)
(* C7 amended: _find_unreleased_section uses the first Unreleased header   *)
(* and returns (len, len) when no non-blank line follows it; (j, j) when   *)
(* the trimmed text of the first non-blank line after it, at j, starts     *)
(* with "## " and the line is not an Unreleased header; and otherwise      *)
(* (j, e), e the index of the first line at or after j whose trimmed text  *)
(* starts with "## " and that is not an Unreleased header, or len if there *)
(* is none.                                                                *)
(***************************************************************************)
C7_LocatedRange ==
    Located =>
        LET in == InLines
            nonblank == NonBlankIn(in, HeaderIndex(in) + 1, Len(in))
        IN  IF nonblank = {}
               THEN last.start = Len(in) /\ last.end = Len(in)
               ELSE LET j == Min(nonblank) IN
                    IF IsBoundary(At(in, j))
                       THEN last.start = j /\ last.end = j
                       ELSE /\ last.start = j
                            /\ last.end = NextBoundary(in, j)

\* The first non-blank line after the header is a deeper header, "### Added", and a
\* version section follows the content.
C7_Witness ==
    /\ Located
    /\ LET in == InLines IN
        /\ last.start < Len(in)
        /\ At(in, last.start) = LineAdded
        /\ last.start < last.end
        /\ last.end < Len(in)

(***************************************************************************)
(* C8 as stated: with the Unreleased header at index u, the range          *)
(* satisfies u < contentStart <= contentEnd <= len(lines); no line of the  *)
(* range begins with "## " unless it is an Unreleased header; and if       *)
(* contentEnd is less than len(lines), the line at contentEnd begins with  *)
(* "## " and is not an Unreleased header.                                  *)
(***************************************************************************)
C8_Original ==
    Located =>
        LET in == InLines IN
        /\ HeaderIndex(in) < last.start
        /\ last.start <= last.end
        /\ last.end <= Len(in)
        /\ \A i \in last.start..(last.end - 1) :
                StartsSection(At(in, i)) => IsUnreleasedHeader(At(in, i))
        /\ last.end < Len(in) => StartsOtherSection(At(in, last.end))

(***************************************************************************)
(* C8 amended: with the Unreleased header at index u, the range satisfies  *)
(* u < contentStart <= contentEnd <= len(lines); no line of the range has  *)
(* a trimmed text that begins with "## " unless it is an Unreleased        *)
(* header; and if contentEnd is less than len(lines), the trimmed text of  *)
(* the line at contentEnd begins with "## " and the line is not an         *)
(* Unreleased header.                                                      *)
(***************************************************************************)
C8_RangeInvariant ==
    Located =>
        LET in == InLines IN
        /\ HeaderIndex(in) < last.start
        /\ last.start <= last.end
        /\ last.end <= Len(in)
        /\ \A i \in last.start..(last.end - 1) :
                IsSectionHeader(At(in, i)) => IsUnreleasedHeader(At(in, i))
        /\ last.end < Len(in) => IsBoundary(At(in, last.end))

\* A range that holds a second Unreleased header and ends at a version section.
C8_Witness ==
    /\ Located
    /\ LET in == InLines IN
        /\ \E i \in last.start..(last.end - 1) : IsUnreleasedHeader(At(in, i))
        /\ last.end < Len(in)

(***************************************************************************)
(* C9  extract_unreleased_content, on a changelog with an Unreleased       *)
(* header, returns exactly the non-blank lines of the content range, each  *)
(* with its trailing whitespace removed, in order; the range lies after    *)
(* the header and holds no header of a version section, so no line of the  *)
(* preamble or of a version section is returned; and when the section has  *)
(* no body it returns the empty list, not an error.  The file is left as   *)
(* it was.                                                                 *)
(***************************************************************************)
C9_ExtractedLines ==
    LET in == InLines
        u == HeaderIndex(in)
    IN  (last.op = "extract" /\ last.before.exists /\ u # -1)
            => /\ last.status = "ok"
               /\ changelog = last.before
               /\ last.value = Rstripped(NonBlankLines(Slice(in, last.start, last.end)))
               /\ u < last.start
               /\ \A i \in last.start..(last.end - 1) : ~IsBoundary(At(in, i))
               /\ SectionEmpty(in) => last.value = <<>>

\* An extraction that skips a blank line of the range, with a version section after
\* the content.
C9_Witness ==
    /\ last.op = "extract"
    /\ last.status = "ok"
    /\ LET in == InLines IN
        /\ last.end < Len(in)
        /\ last.value # <<>>
        /\ Len(last.value) < last.end - last.start

(***************************************************************************)
(* C10  When the supplied date is invalid (it has not the shape YYYY-MM-DD *)
(* or names no day of the calendar), move_unreleased_to_version fails with *)
(* the invalid-date error, and with no other error also when the changelog *)
(* file is missing or has no Unreleased header; the stored changelog is    *)
(* unchanged.                                                              *)
(***************************************************************************)
C10_InvalidDateFirst ==
    (last.op = "move" /\ ~ValidDate(last.date))
        => /\ last.status = "InvalidDate"
           /\ changelog = last.before

\* The line the last move wrote as the header of the new version section.
WrittenHeader == At(OutLines, HeaderIndex(InLines) + 2)

(***************************************************************************)
(* C11  move_unreleased_to_version accepts a date only if it has the shape *)
(* four digits, hyphen, two digits, hyphen, two digits and names a day of  *)
(* the calendar; with every other date it fails with the invalid-date      *)
(* error; so the header it writes for a digits.digits.digits version       *)
(* matches the version-header shape.                                       *)
(***************************************************************************)
C11_DateShape ==
    last.op = "move" =>
        /\ (last.status = "InvalidDate") <=> ~ValidDate(last.date)
        /\ (last.status = "ok" /\ changelog # last.before /\ last.start < last.end)
                => VERSION_HEADER_PATTERN_match(strip(WrittenHeader)).ok

(***************************************************************************)
(* Vocabulary of the reports.                                              *)
(***************************************************************************)
\* A non-empty string of digits.
AllDigits(t) == Len(t) >= 1 /\ \A i \in 1..Len(t) : t[i] \in Digits

\* The text has the shape YYYY-MM-DD: four digits, hyphen, two digits, hyphen, two
\* digits.
DateShape(t) ==
    /\ Len(t) = 10
    /\ \A k \in {1, 2, 3, 4, 6, 7, 9, 10} : t[k] \in Digits
    /\ t[5] = "-"
    /\ t[8] = "-"

\* The text is "## <digits>.<digits>.<digits> - <YYYY-MM-DD>".
IsVersionHeader(t) ==
    /\ Len(t) >= 21
    /\ SubSeq(t, 1, 3) = <<"#", "#", " ">>
    /\ SubSeq(t, Len(t) - 12, Len(t) - 10) = <<" ", "-", " ">>
    /\ DateShape(SubSeq(t, Len(t) - 9, Len(t)))
    /\ \E i, j \in 5..(Len(t) - 14) :
            /\ i < j
            /\ t[i] = "."
            /\ t[j] = "."
            /\ AllDigits(SubSeq(t, 4, i - 1))
            /\ AllDigits(SubSeq(t, i + 1, j - 1))
            /\ AllDigits(SubSeq(t, j + 1, Len(t) - 13))

\* The file can be read: it exists and holds text.
Readable(file) == file.exists /\ \A i \in 1..Len(file.text) : file.text[i] # BadByte

\* The issues, in line order, for the lines of lines whose numbers are in flagged:
\* each names the 1-based line number and the trimmed text of the line.
IssuesFor(lines, flagged) ==
    LET numbers == SelectSeq([i \in 1..Len(lines) |-> i], LAMBDA i : i \in flagged) IN
    [k \in 1..Len(numbers) |->
        <<"Line ", numbers[k], ": Invalid version header format: '",
          strip(lines[numbers[k]]), "'">>]

(***************************************************************************)
(* C12 as stated: validate_changelog_format never raises and returns       *)
(* exactly one issue when the changelog file does not exist or cannot be   *)
(* read; otherwise the issue "Missing '## Unreleased' section" if and only *)
(* if no Unreleased header exists, followed by one issue, in line order,   *)
(* for every line that starts with "## ", is not an Unreleased header and  *)
(* has not the version-header shape, naming its 1-based number and its     *)
(* trimmed text; and nothing else.                                         *)
(***************************************************************************)
C12_Original ==
    last.op = "validate" =>
        /\ last.status = "ok"
        /\ changelog = last.before
        /\ IF ~Readable(last.before)
              THEN Len(last.value) = 1
              ELSE LET in == InLines
                       flagged == {i \in 1..Len(in) :
                                      /\ StartsOtherSection(in[i])
                                      /\ ~IsVersionHeader(strip(in[i]))}
                   IN  last.value =
                          (IF HeaderIndex(in) = -1
                              THEN << <<"Missing '## Unreleased' section">> >> ELSE <<>>)
                            \o IssuesFor(in, flagged)

(***************************************************************************)
(* C12 amended: the same, with one issue for every line whose trimmed text *)
(* starts with "## ", that is not an Unreleased header and whose trimmed   *)
(* text has not the version-header shape.                                  *)
(***************************************************************************)
C12_ValidationIssues ==
    last.op = "validate" =>
        /\ last.status = "ok"
        /\ changelog = last.before
        /\ IF ~Readable(last.before)
              THEN Len(last.value) = 1
              ELSE LET in == InLines
                       flagged == {i \in 1..Len(in) :
                                      /\ IsBoundary(in[i])
                                      /\ ~IsVersionHeader(strip(in[i]))}
                   IN  last.value =
                          (IF HeaderIndex(in) = -1
                              THEN << <<"Missing '## Unreleased' section">> >> ELSE <<>>)
                            \o IssuesFor(in, flagged)

\* A validation that reports the missing Unreleased header and the header on line
\* 3, and passes over the version header on line 2.
C12_Witness ==
    /\ last.op = "validate"
    /\ Readable(last.before)
    /\ Len(last.value) = 2
    /\ last.value[2][2] = 3
    /\ IsVersionHeader(strip(InLines[2]))

(***************************************************************************)
(* C13  get_version_sections, on a changelog that can be read, returns one *)
(* (version, date) pair for every line whose trimmed text is               *)
(* "## <digits>.<digits>.<digits> - <4 digits>-<2 digits>-<2 digits>" and  *)
(* for no other line, in the order of the lines, duplicates kept.          *)
(***************************************************************************)
C13_VersionSections ==
    (last.op = "versions" /\ Readable(last.before)) =>
        /\ last.status = "ok"
        /\ changelog = last.before
        /\ LET headers == SelectSeq([i \in 1..Len(InLines) |-> strip(InLines[i])],
                                    LAMBDA t : IsVersionHeader(t))
           IN  last.value = [k \in 1..Len(headers) |->
                                <<SubSeq(headers[k], 4, Len(headers[k]) - 13),
                                  SubSeq(headers[k], Len(headers[k]) - 9, Len(headers[k]))>>]

\* A newer section listed before an older one and once more after it, with a line
\* that is no version header among them.
C13_Witness ==
    /\ last.op = "versions"
    /\ last.status = "ok"
    /\ Len(last.value) = 3
    /\ last.value[1] = last.value[3]
    /\ last.value[1] # last.value[2]
    /\ last.value[1][1] = <<"1", ".", "2", ".", "0">>
    /\ Len(InLines) = 4

(***************************************************************************)
(* C14  has_unreleased_content never raises; it returns True exactly when  *)
(* the changelog can be read, has an Unreleased header and the section     *)
(* located after it holds a non-blank line; so it returns False when the   *)
(* section is empty, when the header is absent and when the file does not  *)
(* exist.                                                                  *)
(***************************************************************************)
C14_HasContent ==
    last.op = "has_content" =>
        /\ last.status = "ok"
        /\ changelog = last.before
        /\ last.value = (/\ Readable(last.before)
                         /\ HeaderIndex(InLines) # -1
                         /\ ~SectionEmpty(InLines))

\* True for a section whose content starts after a blank line and ends at a version
\* section.
C14_Witness ==
    /\ last.op = "has_content"
    /\ last.value = TRUE
    /\ last.start > HeaderIndex(InLines) + 1
    /\ last.end < Len(InLines)

(***************************************************************************)
(* Vocabulary of the version catalog.                                      *)
(***************************************************************************)
\* The text starts with the prefix.
HasPrefix(t, prefix) == Len(t) >= Len(prefix) /\ SubSeq(t, 1, Len(prefix)) = prefix

\* The tag without one prefix: "version-" or "release-" if it starts with one of
\* them, otherwise "v" if it starts with it, otherwise the tag as it is.
WithoutPrefix(tag) ==
    IF HasPrefix(tag, <<"v", "e", "r", "s", "i", "o", "n", "-">>) \/ HasPrefix(tag, <<"r", "e", "l", "e", "a", "s", "e", "-">>)
        THEN SubSeq(tag, 9, Len(tag))
    ELSE IF HasPrefix(tag, <<"v">>) THEN SubSeq(tag, 2, Len(tag))
    ELSE tag

\* The positions of the two dots of a text digits.digits.digits, <<>> for another text.
Dots(t) ==
    LET pairs == {d \in (1..Len(t)) \X (1..Len(t)) :
                     /\ d[1] < d[2]
                     /\ t[d[1]] = "."
                     /\ t[d[2]] = "."
                     /\ AllDigits(SubSeq(t, 1, d[1] - 1))
                     /\ AllDigits(SubSeq(t, d[1] + 1, d[2] - 1))
                     /\ AllDigits(SubSeq(t, d[2] + 1, Len(t)))}
    IN  IF pairs = {} THEN <<>> ELSE CHOOSE d \in pairs : TRUE

\* The number a string of digits writes, read from the left.
RECURSIVE DecimalValue(_, _)
DecimalValue(t, sofar) ==
    IF Len(t) = 0 THEN sofar ELSE DecimalValue(Tail(t), 10 * sofar + DigitVal(Head(t)))

\* The tag names a version, and the version it names.
NamesVersion(tag) == Dots(WithoutPrefix(tag)) # <<>>

VersionNamed(tag) ==
    LET t == WithoutPrefix(tag)
        d == Dots(t)
    IN  [major |-> DecimalValue(SubSeq(t, 1, d[1] - 1), 0),
         minor |-> DecimalValue(SubSeq(t, d[1] + 1, d[2] - 1), 0),
         patch |-> DecimalValue(SubSeq(t, d[2] + 1, Len(t)), 0)]

\* a comes before b, or is b, in the lexicographic order on (major, minor, patch).
LexLeq(a, b) ==
    \/ a.major < b.major
    \/ a.major = b.major /\ a.minor < b.minor
    \/ a.major = b.major /\ a.minor = b.minor /\ a.patch <= b.patch

\* The maximum of a catalog that is not empty.
Maximum(catalog) ==
    CHOOSE v \in {catalog[k] : k \in 1..Len(catalog)} :
        \A k \in 1..Len(catalog) : LexLeq(catalog[k], v)

(***************************************************************************)
(* C15  For every list of tags the catalog holds one version for every tag *)
(* that is digits.digits.digits after at most one prefix is stripped       *)
(* ("version-", "release-" or "v", the longest that matches) and nothing   *)
(* for any other tag; the catalog is sorted ascending in the lexicographic *)
(* order on (major, minor, patch); and get_latest_version returns the      *)
(* maximum of the catalog, or none when the catalog is empty.              *)
(***************************************************************************)
C15_Catalog ==
    LET tags == manager.tags
        catalog == manager.versions
        named == {k \in 1..Len(tags) : NamesVersion(tags[k])}
    IN  /\ Len(catalog) = Cardinality(named)
        /\ \A n \in named :
              Cardinality({k \in 1..Len(catalog) : catalog[k] = VersionNamed(tags[n])})
                  = Cardinality({k \in named : VersionNamed(tags[k]) = VersionNamed(tags[n])})
        /\ \A i, j \in 1..Len(catalog) : i < j => LexLeq(catalog[i], catalog[j])
        /\ answer.op = "latest" =>
              /\ answer.status = "ok"
              /\ answer.value = IF Len(catalog) = 0 THEN None ELSE Maximum(catalog)

\* The latest version of a catalog built from three tags given newest first, one of
\* them dropped for its two prefixes, where 0.10.0 comes after 0.9.0.
C15_Witness ==
    /\ answer.op = "latest"
    /\ Len(manager.tags) = 3
    /\ manager.tags[1] = <<"v", "e", "r", "s", "i", "o", "n", "-", "0", ".", "1", "0", ".", "0">>
    /\ manager.tags[2] = <<"v", "r", "e", "l", "e", "a", "s", "e", "-", "9", ".", "0", ".", "0">>
    /\ manager.tags[3] = <<"0", ".", "9", ".", "0">>
    /\ answer.value = [major |-> 0, minor |-> 10, patch |-> 0]

(***************************************************************************)
(* C16  suggest_version(kind) returns, where (M, m, p) is the latest       *)
(* version of the catalog, (M+1, 0, 0) for major, (M, m+1, 0) for minor    *)
(* and (M, m, p+1) for patch; 1.0.0, 0.1.0 and 0.0.1 when the catalog is   *)
(* empty; it fails with the invalid-bump-kind error for every other kind;  *)
(* and the catalog, with the version the bump is applied to, is after the  *)
(* call what it was before.                                                *)
(***************************************************************************)
C16_SuggestVersion ==
    answer.op = "suggest" =>
        LET catalog == answer.before.versions
            empty == Len(catalog) = 0
            latest == IF empty THEN None ELSE Maximum(catalog)
        IN  /\ manager = answer.before
            /\ answer.bump_type = "major" =>
                  /\ answer.status = "ok"
                  /\ answer.value = IF empty THEN [major |-> 1, minor |-> 0, patch |-> 0]
                                    ELSE [major |-> latest.major + 1, minor |-> 0, patch |-> 0]
            /\ answer.bump_type = "minor" =>
                  /\ answer.status = "ok"
                  /\ answer.value = IF empty THEN [major |-> 0, minor |-> 1, patch |-> 0]
                                    ELSE [major |-> latest.major, minor |-> latest.minor + 1,
                                          patch |-> 0]
            /\ answer.bump_type = "patch" =>
                  /\ answer.status = "ok"
                  /\ answer.value = IF empty THEN [major |-> 0, minor |-> 0, patch |-> 1]
                                    ELSE [major |-> latest.major, minor |-> latest.minor,
                                          patch |-> latest.patch + 1]
            /\ answer.bump_type \notin {"major", "minor", "patch"} =>
                  answer.status = "ValueError"

\* A minor bump of 1.2.3, the latest of two versions, gives 1.3.0.
C16_Witness ==
    /\ answer.op = "suggest"
    /\ answer.bump_type = "minor"
    /\ Len(manager.versions) = 2
    /\ manager.versions[2] = [major |-> 1, minor |-> 2, patch |-> 3]
    /\ answer.value = [major |-> 1, minor |-> 3, patch |-> 0]

(***************************************************************************)
(* Vocabulary of the commands.                                             *)
(***************************************************************************)
\* The positions, in the steps performed, of the steps of an operation.
StepsOf(op) == {k \in 1..Len(run.steps) : run.steps[k].op = op}

\* The name of the release branch of a version, and the version of a release branch.
ReleaseBranchOf(version) == <<"r", "e", "l", "e", "a", "s", "e", "/">> \o version

VersionOfBranch(branch) == SubSeq(branch, 9, Len(branch))

\* The branch releases are created from in the repository: develop if it exists,
\* otherwise main, otherwise master; <<>> if there is none of them.
SourceBranch(repo) ==
    IF <<"d", "e", "v", "e", "l", "o", "p">> \in repo.branches THEN <<"d", "e", "v", "e", "l", "o", "p">>
    ELSE IF <<"m", "a", "i", "n">> \in repo.branches THEN <<"m", "a", "i", "n">>
    ELSE IF <<"m", "a", "s", "t", "e", "r">> \in repo.branches THEN <<"m", "a", "s", "t", "e", "r">>
    ELSE <<>>

IntegrationBranch(repo) ==
    IF <<"m", "a", "i", "n">> \in repo.branches THEN <<"m", "a", "i", "n">>
    ELSE IF <<"m", "a", "s", "t", "e", "r">> \in repo.branches THEN <<"m", "a", "s", "t", "e", "r">>
    ELSE <<>>

\* The command was started on a wrong branch: release on another branch than the
\* one releases are created from, finish on a branch that is no release branch.
WrongBranchAtStart ==
    IF run.command = "release"
        THEN /\ SourceBranch(run.start.repo) # <<>>
             /\ run.start.repo.current # SourceBranch(run.start.repo)
        ELSE ~HasPrefix(run.start.repo.current, <<"r", "e", "l", "e", "a", "s", "e", "/">>)

\* release offers the switch to develop: it was started on another branch of a clean
\* repository that has a develop branch.
SwitchOffered ==
    /\ run.command = "release"
    /\ ~run.start.repo.dirty
    /\ <<"d", "e", "v", "e", "l", "o", "p">> \in run.start.repo.branches
    /\ run.start.repo.current # <<"d", "e", "v", "e", "l", "o", "p">>

\* The failures of the claim: the preconditions and the steps it lists.
ListedFailures ==
    {"dirty", "wrong_branch", "format_issues", "changelog_declined", "no_content",
     "create_branch", "checkout", "merge", "create_tag", "commit", "delete_branch",
     "changelog"}

(***************************************************************************)
(* C17  In release the branch created is release/<new version>; the        *)
(* Unreleased content is moved, to the new version and on the release      *)
(* branch, only right after that branch was created and checked out;       *)
(* CHANGELOG.md is committed, with the message "Changelog", only right     *)
(* after the move; a confirmed release that ends with exit code 0 has done *)
(* all three; and the changelog the command found, or the one it created,  *)
(* is not rewritten before the release branch is checked out.              *)
(***************************************************************************)
C17_ReleaseOrder ==
    (run.command = "release" /\ run.new_version # None) =>
        LET steps == run.steps
            version == Version_str(run.new_version)
            branch == ReleaseBranchOf(version)
        IN  /\ \A k \in StepsOf("create_branch") : steps[k].name = branch
            /\ \A k \in StepsOf("move") :
                  /\ k >= 3
                  /\ steps[k - 2].op = "create_branch"
                  /\ steps[k - 1].op = "checkout"
                  /\ steps[k - 1].name = branch
                  /\ steps[k].name = version
                  /\ steps[k].on = branch
            /\ \A k \in StepsOf("commit") :
                  /\ k >= 2
                  /\ steps[k - 1].op = "move"
                  /\ steps[k].name = <<"C", "H", "A", "N", "G", "E", "L", "O", "G", ".", "m", "d">>
                  /\ steps[k].message = <<"C", "h", "a", "n", "g", "e", "l", "o", "g">>
                  /\ steps[k].on = branch
            /\ (run.exit = 0 /\ run.declined = "none") => StepsOf("commit") # {}
            /\ changelog # (IF StepsOf("create_changelog") = {} THEN run.start.changelog
                             ELSE File(initial_content))
                  => \E k \in StepsOf("checkout") : steps[k].name = branch

\* A release started on main that switched to develop, created release/1.3.0, moved
\* the content there and committed it.
C17_Witness ==
    /\ run.command = "release"
    /\ run.exit = 0
    /\ Len(run.steps) = 5
    /\ run.steps[1].op = "checkout"
    /\ run.steps[2].op = "create_branch"
    /\ run.steps[2].name = <<"r", "e", "l", "e", "a", "s", "e", "/", "1", ".", "3", ".", "0">>
    /\ run.steps[5].op = "commit"
    /\ changelog # run.start.changelog

(***************************************************************************)
(* C18  A command whose confirmation ("Create release <version>?" of       *)
(* release, "Finish release <version>?" of finish) the user declined ended *)
(* with exit code 0 and has created no branch, merged nothing, created no  *)
(* tag, deleted no branch, pushed nothing, moved no changelog content and  *)
(* committed nothing.                                                      *)
(***************************************************************************)
C18_Declined ==
    run.declined # "none" =>
        /\ run.exit = 0
        /\ \A k \in 1..Len(run.steps) :
              run.steps[k].op \notin {"create_branch", "merge_no_ff", "create_tag",
                                      "delete_branch", "push", "push_tags", "move", "commit"}
        /\ git.branches = run.start.repo.branches
        /\ git.tags = run.start.repo.tags
        /\ run.start.changelog.exists => changelog = run.start.changelog

\* A release declined at its confirmation, after the switch to develop and the pull.
C18_Witness ==
    /\ run.declined = "release"
    /\ run.new_version = [major |-> 1, minor |-> 3, patch |-> 0]
    /\ Len(run.steps) = 2
    /\ run.steps[2].op = "pull"

(***************************************************************************)
(* C19 as stated: a command started with uncommitted changes or on a wrong *)
(* branch does not end with exit code 0 and performs no step; and a        *)
(* failure of the claim's list (a failed precondition, or an error of a    *)
(* create-branch, checkout, merge, create-tag, commit, local branch        *)
(* deletion or changelog step) ends the command with exit code 1, with no  *)
(* step performed after it.                                                *)
(***************************************************************************)
C19_Original ==
    /\ (run.start.repo.dirty \/ WrongBranchAtStart) => (run.exit # 0 /\ run.steps = <<>>)
    /\ run.failure.kind \in ListedFailures =>
          (run.exit = 1 /\ Len(run.steps) = run.failure.after)

(***************************************************************************)
(* C19 amended: the same, where a release started on a wrong branch of a   *)
(* repository with a develop branch fails only if the user declines the    *)
(* switch to develop or the checkout of develop fails: it does not end     *)
(* with exit code 0 unless it checked out develop first.                   *)
(***************************************************************************)
C19_FailureExits ==
    /\ ((run.start.repo.dirty \/ WrongBranchAtStart) /\ ~SwitchOffered)
          => (run.exit # 0 /\ run.steps = <<>>)
    /\ SwitchOffered =>
          \/ run.steps = <<>> /\ run.exit # 0
          \/ run.steps # <<>> /\ run.steps[1].op = "checkout" /\ run.steps[1].name = <<"d", "e", "v", "e", "l", "o", "p">>
    /\ run.failure.kind \in ListedFailures \cup {"switch_declined"} =>
          (run.exit = 1 /\ Len(run.steps) = run.failure.after)

\* A finish whose merge back into develop failed, after the tag was created.
C19_Witness ==
    /\ run.command = "finish"
    /\ run.failure.kind = "merge"
    /\ run.exit = 1
    /\ Len(run.steps) = 4
    /\ run.steps[3].op = "create_tag"
    /\ run.steps[4].op = "checkout"

(***************************************************************************)
(* C20  In a finish on the branch release/<v>: the release branch is       *)
(* merged, with no fast-forward, into the integration branch while that    *)
(* branch is checked out; the tag <v> is created only after this merge;    *)
(* the integration branch is merged into develop only if develop exists    *)
(* and only after the tag was created; the release branch is deleted only  *)
(* after all of these; and in every state the release branch has been      *)
(* deleted only if the tag <v> exists.                                     *)
(***************************************************************************)
C20_FinishOrder ==
    (run.command = "finish" /\ run.current_branch # <<>>) =>
        LET steps == run.steps
            release == run.start.repo.current
            v == VersionOfBranch(release)
            integration == IntegrationBranch(run.start.repo)
            develop == <<"d", "e", "v", "e", "l", "o", "p">>
            merges == {k \in StepsOf("merge_no_ff") : steps[k].name = release}
            merges_back == {k \in StepsOf("merge_no_ff") : steps[k].name = integration}
            tags == StepsOf("create_tag")
        IN  /\ StepsOf("merge_no_ff") = merges \cup merges_back
            /\ \A k \in merges : steps[k].on = integration
            /\ \A k \in tags : steps[k].name = v /\ \E m \in merges : m < k
            /\ \A k \in merges_back :
                  /\ develop \in git.branches
                  /\ steps[k].on = develop
                  /\ \E t \in tags : t < k
            /\ \A k \in StepsOf("delete_branch") :
                  /\ steps[k].name = release
                  /\ \E m \in merges : m < k
                  /\ \E t \in tags : t < k
                  /\ develop \in git.branches => \E m \in merges_back : m < k
            /\ release \notin git.branches => \E i \in 1..Len(git.tags) : git.tags[i] = v

\* The positions, in the prompts answered, of a prompt.
PromptsOf(prompt) == {j \in 1..Len(run.prompts) : run.prompts[j].prompt = prompt}

\* The positions, in the steps performed, of the pushes of a branch or of the tags.
Pushes == StepsOf("push") \cup StepsOf("push_tags")

(***************************************************************************)
(* C21  In a finish: with a remote, a branch or the tags are pushed only   *)
(* after the prompt `Push all changes to remote?` was answered; after that *)
(* prompt was declined nothing is pushed and the command ends with exit    *)
(* code 0; without a remote nothing is pushed and the prompt is not shown. *)
(***************************************************************************)
C21_PushPrompt ==
    run.command = "finish" =>
        /\ \A k \in Pushes : \E j \in PromptsOf("push") : run.prompts[j].after < k
        /\ run.declined = "push" => (Pushes = {} /\ run.exit \in {-1, 0})
        /\ ~run.start.repo.remote => (Pushes = {} /\ PromptsOf("push") = {})

(***************************************************************************)
(* C22  In a finish, the step that pushes the integration branch, the tags *)
(* and develop never ends the command, whichever of the pushes fails: the  *)
(* command goes on to its final checkout, and the repository keeps the     *)
(* merges, the tag and the deletion of the release branch.                 *)
(***************************************************************************)
C22_PushFailure ==
    [][Running("finish", "push") => (run'.exit = -1 /\ run'.pc = "switch" /\ git' = git)]_vars

(***************************************************************************)
(* C23  In a release: the release branch is pushed, with --set-upstream,   *)
(* only in a repository with a remote and only after the commit of the     *)
(* changelog; and once the commit is made, whether the push succeeds or    *)
(* fails, the command ends with exit code 0, the release branch exists and *)
(* is checked out, and the commit stays among the steps performed.         *)
(***************************************************************************)
C23_ReleasePush ==
    run.command = "release" =>
        /\ \A k \in StepsOf("push") :
              /\ run.start.repo.remote
              /\ run.steps[k].name = run.release_branch_name
              /\ run.steps[k].message = <<"-", "-", "s", "e", "t", "-", "u", "p", "s", "t", "r", "e", "a", "m">>
              /\ \E c \in StepsOf("commit") : c < k
        /\ (StepsOf("commit") # {} /\ run.pc = "exit") =>
              /\ run.exit = 0
              /\ run.failure.kind = "none"
              /\ run.release_branch_name \in git.branches
              /\ git.current = run.release_branch_name
              /\ git.remote = run.start.repo.remote

\* A release in a repository with a remote whose push failed: it ended with exit
\* code 0 after the commit, without a push.
C23_Witness ==
    /\ run.command = "release"
    /\ run.start.repo.remote
    /\ run.pc = "exit"
    /\ run.exit = 0
    /\ StepsOf("commit") # {}
    /\ StepsOf("push") = {}
    /\ run.release_branch_name \in git.branches

(***************************************************************************)
(* C24  A finish that ran to its end with exit code 0 leaves develop       *)
(* checked out if the repository has a develop branch, and the integration *)
(* branch otherwise, and the checkout of that branch is the last step it   *)
(* performed.                                                              *)
(***************************************************************************)
C24_FinalCheckout ==
    (run.command = "finish" /\ run.exit = 0 /\ run.declined = "none") =>
        LET final == IF <<"d", "e", "v", "e", "l", "o", "p">> \in git.branches
                        THEN <<"d", "e", "v", "e", "l", "o", "p">>
                        ELSE IntegrationBranch(run.start.repo)
            n == Len(run.steps)
        IN  /\ git.current = final
            /\ n > 0
            /\ run.steps[n].op = "checkout"
            /\ run.steps[n].name = final
            /\ (<<"d", "e", "v", "e", "l", "o", "p">> \in git.branches)
                   = (<<"d", "e", "v", "e", "l", "o", "p">> \in run.start.repo.branches)

\* A finish that ended on develop, which it had checked out before for the merge back
\* and left again for nothing: its last two checkouts are of develop.
C24_Witness ==
    /\ run.command = "finish"
    /\ run.exit = 0
    /\ run.declined = "none"
    /\ git.current = <<"d", "e", "v", "e", "l", "o", "p">>
    /\ \E k \in StepsOf("checkout") :
          /\ k < Len(run.steps)
          /\ run.steps[k].name = <<"d", "e", "v", "e", "l", "o", "p">>
    /\ run.steps[Len(run.steps)].op = "checkout"

\* A release that was started on another branch than the one releases are created
\* from, has decided about the branch, and: the source branch is develop, or is not.
PastBranchCheck == run.pc \notin {"preconditions", "branch"}

WrongBranchDevelop ==
    /\ run.command = "release"
    /\ WrongBranchAtStart
    /\ SourceBranch(run.start.repo) = <<"d", "e", "v", "e", "l", "o", "p">>

WrongBranchOther ==
    /\ run.command = "release"
    /\ WrongBranchAtStart
    /\ SourceBranch(run.start.repo) # <<"d", "e", "v", "e", "l", "o", "p">>

\* The failures of a release that can follow the check of the branch.
LaterFailures ==
    {"none", "changelog_declined", "changelog", "format_issues", "no_content",
     "version_mismatch", "bump_type", "create_branch", "commit"}

\* What the claim says of the release after the switch was offered (the prompt
\* "switch" was answered): declined, or accepted.
SwitchDeclined ==
    /\ run.exit = 1
    /\ run.steps = <<>>

SwitchAccepted ==
    /\ Len(run.steps) > 0
    /\ run.steps[1] = [op |-> "checkout", name |-> <<"d", "e", "v", "e", "l", "o", "p">>,
                       on |-> run.start.repo.current, message |-> <<>>]
    /\ \A k \in StepsOf("pull") :
          run.start.repo.remote /\ k = 2 /\ run.steps[k].name = <<"d", "e", "v", "e", "l", "o", "p">>
    /\ run.pc # "pull" => run.failure.kind \in LaterFailures
    /\ StepsOf("create_branch") = {} => git.current = <<"d", "e", "v", "e", "l", "o", "p">>

(***************************************************************************)
(* C25 as stated: whenever a release is started on another branch than the *)
(* source branch and the source branch is develop, the switch is offered;  *)
(* accepting checks develop out, pulls it only with a remote, and goes on  *)
(* with the release whether the pull succeeds or not; declining ends with  *)
(* exit code 1 and no checkout.  If the source branch is main or master    *)
(* the command ends with exit code 1 and the switch is not offered.        *)
(***************************************************************************)
C25_Original ==
    /\ (WrongBranchDevelop /\ PastBranchCheck) =>
          /\ PromptsOf("switch") # {}
          /\ IF run.failure.kind = "switch_declined" THEN SwitchDeclined ELSE SwitchAccepted
    /\ WrongBranchOther =>
          /\ PromptsOf("switch") = {}
          /\ run.steps = <<>>
          /\ PastBranchCheck => run.exit = 1

(***************************************************************************)
(* C25 amended: the same for a release started in a clean working          *)
(* directory (in one with uncommitted changes the command ends with exit   *)
(* code 1 before the switch is offered), and where the checkout of develop *)
(* succeeds (if it fails the command ends with exit code 1 with nothing    *)
(* done).                                                                  *)
(***************************************************************************)
C25_SwitchToDevelop ==
    /\ (WrongBranchDevelop /\ PastBranchCheck) =>
          IF run.start.repo.dirty
              THEN /\ PromptsOf("switch") = {}
                   /\ run.exit = 1
                   /\ run.steps = <<>>
              ELSE /\ PromptsOf("switch") # {}
                   /\ run.prompts[1] = [prompt |-> "switch", after |-> 0]
                   /\ IF run.failure.kind = "switch_declined" THEN SwitchDeclined
                      ELSE IF run.failure.kind = "checkout" /\ run.steps = <<>>
                          THEN run.exit = 1 /\ git.current = run.start.repo.current
                      ELSE SwitchAccepted
    /\ WrongBranchOther =>
          /\ PromptsOf("switch") = {}
          /\ run.steps = <<>>
          /\ PastBranchCheck => run.exit = 1

\* A release started on main in a repository with develop and a remote: the switch
\* was accepted, the pull failed, and the release went on to its end.
C25_Witness ==
    /\ WrongBranchDevelop
    /\ run.start.repo.remote
    /\ PromptsOf("switch") # {}
    /\ StepsOf("pull") = {}
    /\ StepsOf("commit") # {}
    /\ run.steps[1].op = "checkout"
    /\ run.exit = 0

(***************************************************************************)
(* Vocabulary of the prompt for the bump type.  An input is a casing of a  *)
(* word when it has the letters of the word, each in either case.  The     *)
(* input is read without the whitespace around it.                         *)
(***************************************************************************)
Upper(c) ==
    CASE c = "m" -> "M" [] c = "a" -> "A" [] c = "j" -> "J" [] c = "o" -> "O"
      [] c = "r" -> "R" [] c = "i" -> "I" [] c = "n" -> "N" [] c = "p" -> "P"
      [] c = "t" -> "T" [] c = "c" -> "C" [] c = "h" -> "H"
      [] OTHER -> c

CasingOf(input, word) ==
    /\ Len(input) = Len(word)
    /\ \A i \in 1..Len(word) : input[i] \in {word[i], Upper(word[i])}

\* The input without the spaces around it.
Trimmed(input) ==
    IF \A i \in 1..Len(input) : input[i] = " " THEN <<>>
    ELSE LET first == CHOOSE i \in 1..Len(input) :
                          input[i] # " " /\ \A j \in 1..(i - 1) : input[j] = " "
             final == CHOOSE i \in 1..Len(input) :
                          input[i] # " " /\ \A j \in (i + 1)..Len(input) : input[j] = " "
         IN  SubSeq(input, first, final)

\* The bump type an input gives, "none" for an input that is not recognised.
Meaning(input) ==
    LET t == Trimmed(input) IN
    IF t = <<"M">> \/ CasingOf(t, <<"m", "a", "j", "o", "r">>) THEN "major"
    ELSE IF CasingOf(t, <<"p">>) \/ CasingOf(t, <<"p", "a", "t", "c", "h">>) THEN "patch"
    ELSE IF t = <<"m">> \/ CasingOf(t, <<"m", "i", "n", "o", "r">>) \/ t = <<>> THEN "minor"
    ELSE "none"

\* The positions of the recognised inputs among the inputs typed.
RecognisedInputs == {i \in 1..Len(run.typed) : Meaning(run.typed[i]) # "none"}

(***************************************************************************)
(* C26  _prompt_for_bump_type returns only major, minor or patch; it       *)
(* returns at the first recognised input, with the bump type that input    *)
(* gives, having prompted again after each input before it; it never       *)
(* returns while no recognised input was typed; and whenever a recognised  *)
(* input is among the inputs typed, it eventually returns.                 *)
(***************************************************************************)
C26_PromptForBumpType ==
    /\ [](run.pc = "return" =>
             /\ run.result \in {"major", "minor", "patch"}
             /\ run.shown \in RecognisedInputs
             /\ \A i \in RecognisedInputs : run.shown <= i
             /\ run.result = Meaning(run.typed[run.shown]))
    /\ [](run.pc = "prompt" =>
             /\ run.result = "none"
             /\ \A i \in RecognisedInputs : run.shown < i)
    /\ [](RecognisedInputs # {} => <>(run.pc = "return"))
    /\ [](RecognisedInputs = {} => [](run.pc = "prompt"))

\* The function returned major at the third input, MaJoR, after it prompted again
\* for x and for mp.
C26_Witness ==
    /\ run.command = "prompt"
    /\ run.pc = "return"
    /\ run.shown = 3
    /\ run.typed = <<<<"x">>, <<"m", "p">>, <<"M", "a", "J", "o", "R">>>>
    /\ run.result = "major"

\* A command that ran to its end: it was not cancelled and did not fail.
Completed(r, command) == r.command = command /\ r.exit = 0 /\ r.declined = "none"

\* The third command is a release, after a release and a finish that ran to their end.
AfterCycle ==
    /\ Len(run.earlier) = 2
    /\ run.command = "release"
    /\ Completed(run.earlier[1], "release")
    /\ Completed(run.earlier[2], "finish")

(***************************************************************************)
(* C27  After a release that passed the comparison of the first version    *)
(* section of the changelog with the latest tag, was confirmed and ran to  *)
(* its end, and a finish that ran to its end, the next release does not    *)
(* fail that comparison; whether the first release was made with content   *)
(* in the Unreleased section or, by the choice of the user, without.       *)
(***************************************************************************)
C27_RepeatedCycles ==
    AfterCycle => run.failure.kind # "version_mismatch"

(***************************************************************************)
(* C28  For every catalog and each of the bump types major, minor and      *)
(* patch, the version suggest_version returns comes strictly after every   *)
(* version of the catalog in the order on (major, minor, patch);           *)
(* version_exists is False for it; and the tag of that release, the name   *)
(* release/<version> without release/, names none of the versions of the   *)
(* catalog.                                                                *)
(***************************************************************************)
C28_SuggestGreater ==
    (answer.op = "suggest" /\ answer.bump_type \in {"major", "minor", "patch"}) =>
        LET catalog == answer.before.versions
            tag == replace(ReleasePrefix \o Version_str(answer.value), ReleasePrefix, <<>>)
        IN  /\ answer.status = "ok"
            /\ \A k \in 1..Len(catalog) :
                  /\ LexLeq(catalog[k], answer.value)
                  /\ catalog[k] # answer.value
            /\ ~version_exists(answer.before, answer.value)
            /\ NamesVersion(tag)
            /\ \A k \in 1..Len(catalog) : VersionNamed(tag) # catalog[k]

\* The patch suggested for a catalog of three different versions.
C28_Witness ==
    /\ answer.op = "suggest"
    /\ answer.bump_type = "patch"
    /\ Len(answer.before.versions) = 3
    /\ answer.before.versions[1] # answer.before.versions[2]
    /\ answer.before.versions[2] # answer.before.versions[3]
    /\ answer.value.patch = answer.before.versions[3].patch + 1

\* The last call was a move_unreleased_to_version that succeeded, with a version
\* digits.digits.digits, on a changelog for which validate_changelog_format returns
\* no issues.
MovedValidChangelog ==
    /\ last.op = "move"
    /\ last.status = "ok"
    /\ NamesVersion(last.version)
    /\ WithoutPrefix(last.version) = last.version
    /\ validate_changelog_format(last.before).value = <<>>

(***************************************************************************)
(* C29  After move_unreleased_to_version has succeeded, with a version     *)
(* digits.digits.digits and the date of the day or a date it accepts, on a *)
(* changelog for which validate_changelog_format returns no issues:        *)
(* validate_changelog_format returns no issues for the changelog written,  *)
(* and extract_unreleased_content finds its Unreleased header.             *)
(***************************************************************************)
C29_ValidAfterMove ==
    MovedValidChangelog =>
        /\ validate_changelog_format(changelog).value = <<>>
        /\ extract_unreleased_content(changelog).status = "ok"

\* The header "## <version> - <date>" of the last move, and the number of lines of a
\* document that are this header.
HeaderOfMove == <<"#", "#", " ">> \o last.version \o <<" ", "-", " ">> \o last.date

CountOf(lines, line) == Cardinality({i \in 1..Len(lines) : lines[i] = line})

(***************************************************************************)
(* C30  For every document with an Unreleased header and every move whose  *)
(* date is accepted: has_unreleased_content returns True for the document  *)
(* if and only if move_unreleased_to_version inserts a header              *)
(* "## <version> - <date>" into it; when it returns False the move inserts *)
(* no such header.                                                         *)
(***************************************************************************)
C30_ContentIffHeader ==
    (/\ last.op = "move"
     /\ Readable(last.before)
     /\ HeaderIndex(InLines) # -1
     /\ last.status # "InvalidDate") =>
        LET content == has_unreleased_content(last.before).value
            before == CountOf(InLines, HeaderOfMove)
            after == CountOf(OutLines, HeaderOfMove)
        IN  /\ last.status = "ok"
            /\ content => after = before + 1
            /\ ~content => after = before

\* A move on a document whose Unreleased header is followed by a blank line and by
\* the header of a version section: no content, and no header inserted.
C30_Witness ==
    /\ last.op = "move"
    /\ last.status = "ok"
    /\ Readable(last.before)
    /\ HeaderIndex(InLines) = 0
    /\ Len(InLines) = 3
    /\ InLines[2] = <<" ">>
    /\ IsVersionHeader(strip(InLines[3]))
    /\ ~has_unreleased_content(last.before).value
    /\ CountOf(OutLines, HeaderOfMove) = 0

=============================================================================
